---- MODULE Spec2Model ----
(***************************************************************************)
(* A model of smart-tiling's rule engine (core/rules.py), its context      *)
(* matcher (core/context.py) and its time-bounded state store              *)
(* (core/state.py).                                                        *)
(*                                                                         *)
(* Python values.  TLC compares values of one kind only, so Python's None  *)
(* is written None where a string is expected and NoneRec where a record   *)
(* (a dict, a Rule) is expected.  A Python dict is a function whose        *)
(* DOMAIN is its key set.  A Python object whose type matters (the values  *)
(* found in a rule dictionary) is a record tagged with its type.           *)
(***************************************************************************)
EXTENDS Integers, Sequences, FiniteSets, TLC

VARIABLES
    now,                   \* time.time(), in ticks
    rules,                 \* RuleEngine.rules
    relationships,         \* StateManager._relationships
    pending_rules,         \* StateManager._pending_rules
    parent_cwds,           \* StateManager._parent_cwds
    preserved_dimensions,  \* StateManager._preserved_dimensions
    sweep,                 \* the thread inside cleanup_expired_state
    call,                  \* the last call made on the engine or the store
    ret,                   \* what that call returned
    rules_list,            \* the argument load_rules is called with
    i3,                    \* how the i3ipc connection answers the calls made on it
    commands,              \* the commands passed to i3.command by the last call
    attempted,             \* the actions, by position in the rule, it attempted
    caught,                \* the places where it caught an exception
    geometry,              \* how many times it ran switch_splitting
    phase,                 \* the position inside _handle_parent_focus_event
    config,                \* the configuration the event handler is bound to
    lock,                  \* StateManager._lock: the thread that holds it, or None
    pcs,                   \* the threads inside a handler or the store, by name
    shadow                 \* the stores and the result of the same calls with no cleanup

vars == <<now, rules, relationships, pending_rules, parent_cwds,
          preserved_dimensions, sweep, call, ret, rules_list,
          i3, commands, attempted, caught, geometry, phase, config, lock, pcs,
          shadow>>

\* what the handlers of main.py and their threads add to the state of the
\* engine and the store
exec_vars == <<i3, commands, attempted, caught, geometry, phase, config, lock,
               pcs, shadow>>

----------------------------------------------------------------------------
(* Bounds of the model *)

\* the clock stops at MaxTime
MaxTime == 2
\* the longest time-to-live a store is called with
MaxTtl == 1
\* the longest list load_rules is called with
MaxRules == 3

----------------------------------------------------------------------------
(* Python values *)

None == "None"
NoneRec == [type |-> "NoneType"]

Str(s) == [type |-> "str", val |-> s]
List(seq) == [type |-> "list", elts |-> seq]
Dict(f) == [type |-> "dict", items |-> f]
Bool(b) == [type |-> "bool", val |-> b]
\* a float, in thousandths
Float(n) == [type |-> "float", val |-> n]

EmptyDict == Dict(<<>>)

\* bool(x) of a str or None
Truthy(x) == x # None /\ x # ""

\* d.get(k, default) of a Python dict held as a function
DictGet(d, k, default) == IF k \in DOMAIN d THEN d[k] ELSE default

\* d[k] = v
DictSet(d, k, v) == [x \in DOMAIN d \cup {k} |-> IF x = k THEN v ELSE d[x]]

\* del d[k]
DictDel(d, k) == [x \in DOMAIN d \ {k} |-> d[x]]

\* A tagged dict keeps its items, <<key, value>> pairs, in insertion order.
\* hasattr(obj, 'get'): obj.get raises AttributeError unless obj is a dict
HasGet(obj) == obj.type = "dict"

\* obj.get(k, default) of a tagged dict
ObjGet(obj, k, default) ==
    IF \E i \in 1..Len(obj.items) : obj.items[i][1] = k
    THEN obj.items[CHOOSE i \in 1..Len(obj.items) : obj.items[i][1] = k][2]
    ELSE default

\* str(v)
StrOf(v) ==
    CASE v.type = "str" -> v.val
      [] v.type = "bool" -> (IF v.val THEN "True" ELSE "False")
      [] v.type = "NoneType" -> "None"

----------------------------------------------------------------------------
(* core/context.py *)

\* The characters of the strings that titles and patterns are made of.
Chars(s) ==
    CASE s = "" -> <<>>
      [] s = "Nvim" -> <<"N", "v", "i", "m">>
      [] s = "vim" -> <<"v", "i", "m">>
      [] s = "nano" -> <<"n", "a", "n", "o">>
      [] s = "sh" -> <<"s", "h">>
      [] s = "*vim" -> <<"*", "v", "i", "m">>
      [] s = "*VIM*" -> <<"*", "V", "I", "M", "*">>
      [] s = "?h" -> <<"?", "h">>
      [] s = "n*" -> <<"n", "*">>

\* str.lower() on one character
LowerChar(c) ==
    CASE c = "N" -> "n"
      [] c = "V" -> "v"
      [] c = "I" -> "i"
      [] c = "M" -> "m"
      [] OTHER -> c

\* str.lower()
Lower(cs) == [i \in 1..Len(cs) |-> LowerChar(cs[i])]

\* fnmatch.fnmatch on character sequences: * matches any run of characters,
\* ? matches one character, any other character matches itself
RECURSIVE FnMatch(_, _)
FnMatch(name, pat) ==
    IF pat = <<>> THEN name = <<>>
    ELSE IF Head(pat) = "*"
         THEN \E k \in 0..Len(name) :
                 FnMatch(SubSeq(name, k + 1, Len(name)), Tail(pat))
         ELSE /\ name # <<>>
              /\ Head(pat) = "?" \/ Head(pat) = Head(name)
              /\ FnMatch(Tail(name), Tail(pat))

match_title_pattern(title, patterns) ==
    /\ Truthy(title)
    /\ patterns # <<>>
    /\ \E i \in 1..Len(patterns) :
          /\ patterns[i] # ""
          /\ FnMatch(Lower(Chars(title)), Lower(Chars(patterns[i])))

\* getattr(container, 'app_id', None)
extract_app_id(container) == container.app_id

\* window_class is held as a plain string or None
extract_window_class(container) ==
    IF Truthy(container.window_class) THEN container.window_class ELSE None

detect_app_context(container) ==
    [app_id |-> extract_app_id(container),
     window_class |-> extract_window_class(container),
     window_instance |-> None,
     title |-> container.name,
     pid |-> container.pid]

\* x in list
InList(x, list) == \E i \in 1..Len(list) : list[i] = x

\* a match that asks for every criterion given
matches_app_context_All(container, app_id_list, window_class_list, title_patterns) ==
    LET context == detect_app_context(container) IN
    /\ app_id_list # <<>> \/ window_class_list # <<>> \/ title_patterns # <<>>
    /\ app_id_list # <<>> => InList(context.app_id, app_id_list)
    /\ window_class_list # <<>> => InList(context.window_class, window_class_list)
    /\ title_patterns # <<>> => match_title_pattern(context.title, title_patterns)

matches_app_context(container, app_id_list, window_class_list, title_patterns) ==
    LET context == detect_app_context(container) IN
    \/ app_id_list # <<>> /\ InList(context.app_id, app_id_list)
    \/ window_class_list # <<>> /\ InList(context.window_class, window_class_list)
    \/ title_patterns # <<>> /\ match_title_pattern(context.title, title_patterns)

----------------------------------------------------------------------------
(* core/rules.py: parsing *)

\* the outcome of a call: a value returned or an exception raised
Return(v) == [raised |-> FALSE, value |-> v]
Raise(e) == [raised |-> TRUE, exc |-> e]

_ensure_list(value) ==
    CASE value.type = "str" -> <<value.val>>
      [] value.type = "list" -> [i \in 1..Len(value.elts) |-> StrOf(value.elts[i])]
      [] OTHER -> <<>>

\* action_str.split(':', 1) with both parts stripped; <<>> when there is no ':'
SplitColon(s) ==
    CASE s = "place: below" -> <<"place", "below">>
      [] s = "set_mode: v after" -> <<"set_mode", "v after">>
      [] s = "size_ratio: 0.5" -> <<"size_ratio", "0.5">>
      [] OTHER -> <<>>

\* str.split()
Words(s) ==
    CASE s = "v after" -> <<"v", "after">>
      [] s = "h before" -> <<"h", "before">>
      [] s = "" -> <<>>
      [] OTHER -> <<s>>

\* float(value), in thousandths; raises ValueError or TypeError otherwise
CanFloat(value) ==
    \/ value.type = "float"
    \/ value.type = "str" /\ value.val \in {"0.5", "0.333"}
ToFloat(value) ==
    CASE value.type = "float" -> value.val
      [] value.type = "str" /\ value.val = "0.5" -> 500
      [] value.type = "str" /\ value.val = "0.333" -> 333

\* value in [True, 'true', 'True', '1', 1]
IsEnabled(value) ==
    \/ value.type = "bool" /\ value.val
    \/ value.type = "str" /\ value.val \in {"true", "True", "1"}
    \/ value.type = "float" /\ value.val = 1000

\* <<>> stands for the None that _parse_dict_action returns; <<a>> for action a
_parse_dict_action(key, value) ==
    CASE key = "set_mode" ->
           LET parts == Words(StrOf(value)) IN
           IF Len(parts) >= 2
           THEN <<[action |-> "set_mode", mode |-> parts[1], modifier |-> parts[2]]>>
           ELSE IF Len(parts) >= 1
                THEN <<[action |-> "set_mode", mode |-> parts[1]]>>
                ELSE <<>>
      [] key = "place" -> <<[action |-> "place", direction |-> StrOf(value)]>>
      [] key = "size_ratio" ->
           IF CanFloat(value)
           THEN <<[action |-> "size_ratio", value |-> ToFloat(value)]>>
           ELSE <<>>
      [] key \in {"inherit_cwd", "preserve_column"} ->
           <<[action |-> key, enabled |-> IsEnabled(value)]>>
      [] OTHER -> <<[action |-> key, value |-> value]>>

_parse_string_action(action_str) ==
    LET kv == SplitColon(action_str) IN
    IF kv # <<>> THEN _parse_dict_action(kv[1], Str(kv[2])) ELSE <<>>

\* the actions one dict of the actions list contributes, in key order
RECURSIVE ParseDictItems(_)
ParseDictItems(items) ==
    IF items = <<>> THEN <<>>
    ELSE _parse_dict_action(items[1][1], items[1][2]) \o ParseDictItems(Tail(items))

\* the loop of _parse_actions over a list
RECURSIVE ParseActionList(_)
ParseActionList(elts) ==
    IF elts = <<>> THEN <<>>
    ELSE LET action_config == Head(elts)
             parsed ==
                 CASE action_config.type = "str" ->
                        _parse_string_action(action_config.val)
                   [] action_config.type = "dict" ->
                        ParseDictItems(action_config.items)
                   [] OTHER -> <<>>
         IN parsed \o ParseActionList(Tail(elts))

\* iterating a value that is not iterable raises TypeError; the strings and
\* dicts of the model hold no ':' in their characters and keys, so iterating
\* one yields no action
_parse_actions(actions_config) ==
    CASE actions_config.type = "list" -> Return(ParseActionList(actions_config.elts))
      [] actions_config.type \in {"str", "dict"} -> Return(<<>>)
      [] OTHER -> Raise("TypeError")

\* the name of a rule dictionary is a string or is absent
_parse_rule(rule_dict) ==
    IF ~HasGet(rule_dict) THEN Raise("AttributeError")
    ELSE
    LET name == ObjGet(rule_dict, "name", Str("unnamed"))
        parent_config == ObjGet(rule_dict, "parent", EmptyDict)
        child_config == ObjGet(rule_dict, "child", EmptyDict)
        actions == _parse_actions(ObjGet(rule_dict, "actions", List(<<>>)))
    IN
    IF ~HasGet(parent_config) THEN Raise("AttributeError")
    ELSE IF ~HasGet(child_config) THEN Raise("AttributeError")
    ELSE IF actions.raised THEN actions
    ELSE Return(
        [name |-> StrOf(name),
         parent |->
            [app_id |-> _ensure_list(ObjGet(parent_config, "app_id", List(<<>>))),
             window_class |-> _ensure_list(ObjGet(parent_config, "class", List(<<>>))),
             title_pattern |->
                 _ensure_list(ObjGet(parent_config, "title_pattern", List(<<>>)))],
         child |-> [app_id |-> _ensure_list(ObjGet(child_config, "app_id", List(<<>>)))],
         actions |-> actions.value])

\* the loop of load_rules: the rules loaded so far, and whether the call
\* raised.  The except clause evaluates rule_dict.get('name', 'unnamed') for
\* its message, which raises again when rule_dict has no get.
RECURSIVE LoadLoop(_, _)
LoadLoop(loaded, rest) ==
    IF rest = <<>> THEN [rules |-> loaded, raised |-> FALSE]
    ELSE LET rule_dict == Head(rest)
             rule == _parse_rule(rule_dict)
         IN IF ~rule.raised THEN LoadLoop(Append(loaded, rule.value), Tail(rest))
            ELSE IF HasGet(rule_dict) THEN LoadLoop(loaded, Tail(rest))
            ELSE [rules |-> loaded, raised |-> TRUE]

load_rules(list) == LoadLoop(<<>>, list)

----------------------------------------------------------------------------
(* core/rules.py: matching *)

_matches_parent_criteria(container, parent_matcher) ==
    matches_app_context(container, parent_matcher.app_id,
                        parent_matcher.window_class, parent_matcher.title_pattern)

\* the loop of match_parent from rule i on; NoneRec when it runs off the end
RECURSIVE MatchParentFrom(_, _, _)
MatchParentFrom(rule_seq, i, container) ==
    IF i > Len(rule_seq) THEN NoneRec
    ELSE IF _matches_parent_criteria(container, rule_seq[i].parent)
         THEN rule_seq[i]
         ELSE MatchParentFrom(rule_seq, i + 1, container)

\* a match_parent that keeps the last rule accepting the container
match_parent_LastWins(rule_seq, container) ==
    LET accepting == {i \in 1..Len(rule_seq) :
                         _matches_parent_criteria(container, rule_seq[i].parent)}
    IN IF accepting = {} THEN NoneRec
       ELSE rule_seq[CHOOSE i \in accepting : \A j \in accepting : j <= i]

match_parent(rule_seq, container) == MatchParentFrom(rule_seq, 1, container)

\* a match_child that treats empty criteria as the parent matcher does
match_child_EmptyRejects(container, rule) ==
    matches_app_context(container, rule.child.app_id, <<>>, <<>>)

match_child(container, rule) ==
    IF rule.child.app_id = <<>> THEN TRUE
    ELSE matches_app_context(container, rule.child.app_id, <<>>, <<>>)

----------------------------------------------------------------------------
(* core/state.py: the dict operations each method performs under the lock *)

\* the entry store_pending_rule writes at time t
PendingEntry(rule, parent_id, context, t, expires_in) ==
    [rule |-> rule, parent_id |-> parent_id, context |-> context,
     expires_at |-> t + expires_in]

\* a store that updates an entry already there, keeping its parent and expiry
store_pending_rule_Merges(d, workspace, rule, parent_id, context, t, expires_in) ==
    IF workspace \in DOMAIN d
    THEN DictSet(d, workspace, [d[workspace] EXCEPT !.rule = rule, !.context = context])
    ELSE DictSet(d, workspace, PendingEntry(rule, parent_id, context, t, expires_in))

\* a store that lets the timer of an entry already there run on
store_pending_rule_KeepsTimer(d, workspace, rule, parent_id, context, t, expires_in) ==
    IF workspace \in DOMAIN d
    THEN DictSet(d, workspace,
                 [PendingEntry(rule, parent_id, context, t, expires_in)
                     EXCEPT !.expires_at = d[workspace].expires_at])
    ELSE DictSet(d, workspace, PendingEntry(rule, parent_id, context, t, expires_in))

\* a store that keeps one pending rule for all the workspaces it knows
store_pending_rule_Shared(d, workspace, rule, parent_id, context, t, expires_in) ==
    [x \in DOMAIN d \cup {workspace} |->
        PendingEntry(rule, parent_id, context, t, expires_in)]

store_pending_rule(d, workspace, rule, parent_id, context, t, expires_in) ==
    DictSet(d, workspace, PendingEntry(rule, parent_id, context, t, expires_in))

store_parent_cwd(d, workspace, parent_id, cwd, t, expires_in) ==
    DictSet(d, workspace,
            [parent_id |-> parent_id, cwd |-> cwd, expires_at |-> t + expires_in])

store_preserved_dimensions(d, workspace, container_id, dimensions, t, expires_in) ==
    DictSet(d, workspace,
            [container_id |-> container_id, dimensions |-> dimensions,
             expires_at |-> t + expires_in])

store_relationship(d, child_id, parent_id, rule_name, context, t) ==
    DictSet(d, child_id,
            [parent_id |-> parent_id, rule_name |-> rule_name,
             created_at |-> t, parent_context |-> context])

get_relationship(d, child_id) == DictGet(d, child_id, NoneRec)

\* a test that forgets the expiry time
IsLive_NeverExpires(info, t) == info # NoneRec

\* a test that still passes at the expiry instant
IsLive_Inclusive(info, t) == info # NoneRec /\ info.expires_at >= t

\* the test every get makes on the entry it found: info and info['expires_at'] > time.time()
IsLive(info, t) == info # NoneRec /\ info.expires_at > t

\* the entry a get returns at time t (NoneRec for None), and the dict it leaves
GetEntry(d, workspace, t) ==
    LET info == DictGet(d, workspace, NoneRec) IN
    IF IsLive(info, t) THEN info ELSE NoneRec

AfterGet(d, workspace, t) ==
    LET info == DictGet(d, workspace, NoneRec) IN
    IF IsLive(info, t) THEN d
    ELSE IF info # NoneRec THEN DictDel(d, workspace)
    ELSE d

get_pending_rule(d, workspace, t) == GetEntry(d, workspace, t)

get_parent_cwd(d, workspace, t) ==
    LET info == GetEntry(d, workspace, t) IN
    IF info # NoneRec THEN info.cwd ELSE None

get_preserved_dimensions(d, workspace, t) ==
    LET info == GetEntry(d, workspace, t) IN
    IF info # NoneRec THEN info.dimensions ELSE None

\* a sweep that also purges the relationships made up to the time it read
CleanedRelationships_Purges(d, current_time) ==
    [id \in {x \in DOMAIN d : d[x].created_at > current_time} |-> d[id]]

\* what cleanup_expired_state leaves of _relationships: it has no statement on it
CleanedRelationships(d, current_time) == d

\* a cleanup that clears the dict whatever the expiry of its entries
Cleaned_Empties(d, current_time) == [ws \in {} |-> d[ws]]

\* a cleanup that purges the entries one tick before they expire
Cleaned_Early(d, current_time) ==
    LET expired == {ws \in DOMAIN d : d[ws].expires_at <= current_time + 1}
    IN [ws \in DOMAIN d \ expired |-> d[ws]]

\* what cleanup_expired_state leaves of one dict, given the time it read
Cleaned(d, current_time) ==
    LET expired == {ws \in DOMAIN d : d[ws].expires_at <= current_time}
    IN [ws \in DOMAIN d \ expired |-> d[ws]]

----------------------------------------------------------------------------
(* The windows, workspaces and configuration the model runs on *)

Workspaces == {"1", "2"}
Ttls == 0..MaxTtl

Window(id, app_id, window_class, name) ==
    [id |-> id, app_id |-> app_id, window_class |-> window_class, name |-> name,
     pid |-> None]

Container(id, app_id, name) == Window(id, app_id, None, name)

\* windows that take the focus; one has no id attribute
ParentContainers ==
    {Container("p1", "kitty", "Nvim"), Container(None, "foot", "nano")}

\* windows that are created; one has no id attribute
ChildContainers ==
    {Container("c2", "kitty", "sh"), Container("c3", "firefox", None),
     Container(None, "kitty", "sh")}

\* the rules of the configuration the engine starts with
ConfigRules ==
    <<Dict(<<
        <<"name", Str("editor_terminal")>>,
        <<"parent", Dict(<< <<"app_id", List(<<Str("kitty")>>)>>,
                            <<"title_pattern", List(<<Str("*vim")>>)>> >>)>>,
        <<"child", Dict(<< <<"app_id", List(<<Str("kitty")>>)>> >>)>>,
        <<"actions", List(<<Dict(<< <<"place", Str("below")>> >>),
                            Dict(<< <<"size_ratio", Float(333)>> >>)>>)>> >>),
      Dict(<<
        <<"name", Str("any_child")>>,
        <<"parent", Dict(<< <<"title_pattern", Str("n*")>> >>)>>,
        <<"child", EmptyDict>>,
        <<"actions", List(<<Str("place: below")>>)>> >>)>>

----------------------------------------------------------------------------
(* scroll/layout.py.  A layout method is given the connection and the      *)
(* commands and caught exceptions of the call so far, io, and returns its  *)
(* boolean with the io it leaves.  create_layout_manager makes a new       *)
(* manager for every phase, so the _original_modes that set_mode writes    *)
(* are dropped with it and are not kept here.                              *)

\* what i3.command does with a command: [success=True], [success=False], or
\* an exception
Replies == {"ok", "rejected", "raises"}

\* a connection: its answers to the successive commands of one call, the
\* last one repeated from then on, and the name of the focused workspace
\* that get_tree leads to (None when nothing is focused, "raises" when
\* get_tree fails)
Connection(replies, focused) == [replies |-> replies, focused |-> focused]

Reply(conn, k) ==
    conn.replies[IF k <= Len(conn.replies) THEN k ELSE Len(conn.replies)]

\* the list i3.command returns for a reply: the success of each CommandReply.
\* "ok" is [success=True], "rejected" [success=False], "empty" [], "partial"
\* [success=True, success=False] and "both" [success=True, success=True]
ReplyList(reply) ==
    CASE reply = "ok" -> <<TRUE>>
      [] reply = "rejected" -> <<FALSE>>
      [] reply = "empty" -> <<>>
      [] reply = "partial" -> <<TRUE, FALSE>>
      [] reply = "both" -> <<TRUE, TRUE>>

\* a success that it takes one accepted reply to reach
Success_Any(reply) ==
    /\ reply # "raises"
    /\ \E k \in 1..Len(ReplyList(reply)) : ReplyList(reply)[k]

\* "all(r.success for r in result) if result else False"; the except clause
\* of the caller returns False when the call raised
Success(reply) ==
    /\ reply # "raises"
    /\ ReplyList(reply) # <<>>
    /\ \A k \in 1..Len(ReplyList(reply)) : ReplyList(reply)[k]

NoIo == [commands |-> <<>>, caught |-> {}]

LayoutResult(success, io) == [success |-> success, io |-> io]

\* a connection whose log shows the latest command first
Command_Prepends(conn, io, command, where) ==
    LET reply == Reply(conn, Len(io.commands) + 1) IN
    LayoutResult(Success(reply),
                 [commands |-> <<command>> \o io.commands,
                  caught |-> IF reply = "raises" THEN io.caught \cup {where}
                             ELSE io.caught])

\* a connection on which a command that was not accepted is sent once more
Command_Retries(conn, io, command, where) ==
    LET reply == Reply(conn, Len(io.commands) + 1) IN
    LayoutResult(Success(reply),
                 [commands |-> IF Success(reply) THEN Append(io.commands, command)
                               ELSE io.commands \o <<command, command>>,
                  caught |-> IF reply = "raises" THEN io.caught \cup {where}
                             ELSE io.caught])

\* result = i3_connection.command(command);
\* success = all(r.success for r in result) if result else False,
\* inside the try of the method named where
Command(conn, io, command, where) ==
    LET reply == Reply(conn, Len(io.commands) + 1) IN
    LayoutResult(Success(reply),
                 [commands |-> Append(io.commands, command),
                  caught |-> IF reply = "raises" THEN io.caught \cup {where}
                             ELSE io.caught])

\* ScrollLayoutManager._get_current_workspace(i3_connection): the name, or
\* None; an exception of get_tree is caught inside
_get_current_workspace(conn) ==
    IF conn.focused = "raises" THEN None ELSE conn.focused

\* what calling _get_current_workspace leaves caught
WorkspaceIo(conn, io) ==
    IF conn.focused = "raises"
    THEN [io EXCEPT !.caught = @ \cup {"_get_current_workspace"}]
    ELSE io

\* ScrollLayoutManager.set_mode(i3_connection, mode, modifier); modifier is
\* None when there is none.  _get_current_mode always answers, so the
\* workspace is looked up before the command is built.
set_mode(conn, io, mode, modifier) ==
    IF mode \notin {"h", "v"} THEN LayoutResult(FALSE, io)
    ELSE IF Truthy(modifier) /\ modifier \notin {"after", "before", "end", "beg"}
         THEN LayoutResult(FALSE, io)
    ELSE LET command == IF Truthy(modifier)
                        THEN ("set_mode " \o mode) \o (" " \o modifier)
                        ELSE "set_mode " \o mode
         IN Command(conn, WorkspaceIo(conn, io), command, "set_mode")

\* a map that places above and left after, below and right before
direction_map_Swapped(direction) ==
    CASE direction = "below" -> <<"v", "before">>
      [] direction = "right" -> <<"h", "before">>
      [] direction = "above" -> <<"v", "after">>
      [] direction = "left" -> <<"h", "after">>
      [] OTHER -> <<>>

\* direction_map of place_window; <<>> for a direction that is not a key
direction_map(direction) ==
    CASE direction = "below" -> <<"v", "after">>
      [] direction = "right" -> <<"h", "after">>
      [] direction = "above" -> <<"v", "before">>
      [] direction = "left" -> <<"h", "before">>
      [] OTHER -> <<>>

\* ScrollLayoutManager.place_window(i3_connection, direction)
place_window(conn, io, direction) ==
    IF direction_map(direction) = <<>> THEN LayoutResult(FALSE, io)
    ELSE set_mode(conn, io, direction_map(direction)[1], direction_map(direction)[2])

\* str(ratio) of the ratios of the model, which are held in thousandths
FloatStr(ratio) ==
    CASE ratio = 333 -> "0.333"
      [] ratio = 500 -> "0.5"
      [] ratio = 100 -> "0.1"
      [] ratio = 900 -> "0.9"
      [] ratio = 50 -> "0.05"
      [] ratio = 1000 -> "1.0"

\* a set_size that checks the lower bound of the ratio only
set_size_NoUpperBound(conn, io, dimension, ratio) ==
    IF dimension \notin {"h", "v"} THEN LayoutResult(FALSE, io)
    ELSE IF ~(100 <= ratio) THEN LayoutResult(FALSE, io)
    ELSE Command(conn, io, ("set_size " \o dimension) \o (" " \o FloatStr(ratio)),
                 "set_size")

\* ScrollLayoutManager.set_size(i3_connection, dimension, ratio)
set_size(conn, io, dimension, ratio) ==
    IF dimension \notin {"h", "v"} THEN LayoutResult(FALSE, io)
    ELSE IF ~(100 <= ratio /\ ratio <= 900) THEN LayoutResult(FALSE, io)
    ELSE Command(conn, io, ("set_size " \o dimension) \o (" " \o FloatStr(ratio)),
                 "set_size")

\* safe_command(i3_connection, command)
safe_command(conn, io, command) == Command(conn, io, command, "safe_command")

----------------------------------------------------------------------------
(* main.py and core/rules.py: executing the actions of a rule.  A loop     *)
(* over the actions carries acc: the io of the layout calls, the positions *)
(* of the actions attempted, the two lists of the report and the two       *)
(* stores an action may touch.                                             *)

\* the expires_in that store_parent_cwd and store_preserved_dimensions default to
DefaultStoreTtl == 60

\* core/process.py get_process_cwd(pid): the link /proc/{pid}/cwd, None when
\* it cannot be read
get_process_cwd(pid) == IF pid = "42" THEN "/home/u" ELSE None

\* the dimensions preserve_column_split reads off a container that has no rect
ZeroDimensions == "width=0,height=0,x=0,y=0"

\* main._get_placement_direction_from_rule(rule): the direction of the first
\* place action of the rule
RECURSIVE PlacementDirectionFrom(_, _)
PlacementDirectionFrom(actions, i) ==
    IF i > Len(actions) THEN "below"
    ELSE IF DictGet(actions[i], "action", None) = "place"
         THEN DictGet(actions[i], "direction", "below")
         ELSE PlacementDirectionFrom(actions, i + 1)

\* a lookup that takes the last place action of the rule
_get_placement_direction_from_rule_Last(rule) ==
    LET places == {i \in 1..Len(rule.actions) :
                      DictGet(rule.actions[i], "action", None) = "place"}
    IN IF places = {} THEN "below"
       ELSE DictGet(rule.actions[CHOOSE i \in places : \A j \in places : j <= i],
                    "direction", "below")

_get_placement_direction_from_rule(rule) == PlacementDirectionFrom(rule.actions, 1)

\* RuleEngine._get_placement_direction_from_actions(actions)
_get_placement_direction_from_actions(actions) == PlacementDirectionFrom(actions, 1)

\* main._map_direction_to_dimension and RuleEngine._map_direction_to_dimension
_map_direction_to_dimension(direction) ==
    CASE direction \in {"below", "above"} -> "v"
      [] direction \in {"left", "right"} -> "h"
      [] OTHER -> "v"

Acc(io, tried, actions_executed, actions_failed, cwds, dims) ==
    [io |-> io, attempted |-> tried, actions_executed |-> actions_executed,
     actions_failed |-> actions_failed, parent_cwds |-> cwds,
     preserved_dimensions |-> dims]

\* a report that gives a reason, not the name, for an action of unknown type
Track_GivesReason(acc, i, action_type, r, cwds, dims) ==
    Acc(r.io, Append(acc.attempted, i),
        IF r.success THEN Append(acc.actions_executed, action_type)
        ELSE acc.actions_executed,
        IF r.success THEN acc.actions_failed
        ELSE IF action_type \in {"place", "size_ratio", "inherit_cwd",
                                 "preserve_column", "set_mode"}
             THEN Append(acc.actions_failed, action_type)
             ELSE Append(acc.actions_failed, "unknown action type"),
        cwds, dims)

\* "Track results": the action goes to one list of the report
Track(acc, i, action_type, r, cwds, dims) ==
    Acc(r.io, Append(acc.attempted, i),
        IF r.success THEN Append(acc.actions_executed, action_type)
        ELSE acc.actions_executed,
        IF r.success THEN acc.actions_failed
        ELSE Append(acc.actions_failed, action_type),
        cwds, dims)

\* a report that is handled when no action failed
Handled_NoFailure(actions_executed, actions_failed) == actions_failed = <<>>

\* results['handled'] = len(results['actions_executed']) > 0
Handled(actions_executed, actions_failed) == Len(actions_executed) > 0

\* a loop that leaves at the first action that failed
AfterAction_StopsOnFailure(acc, i, n) ==
    IF acc.actions_failed # <<>> THEN n + 1 ELSE i + 1

\* the for loop goes on to the next action whatever the last one did
AfterAction(acc, i, n) == i + 1

\* a child phase whose enabled actions need a live entry in their store
ChildAction_NeedsEntry(conn, rule, acc, i, t) ==
    LET action == rule.actions[i]
        action_type == DictGet(action, "action", "unknown")
        workspace == _get_current_workspace(conn)
    IN
    CASE action_type = "set_mode" -> acc
      [] action_type = "place" ->
           Track(acc, i, action_type,
                 place_window(conn, acc.io, DictGet(action, "direction", "below")),
                 acc.parent_cwds, acc.preserved_dimensions)
      [] action_type = "size_ratio" ->
           Track(acc, i, action_type,
                 set_size(conn, acc.io,
                          _map_direction_to_dimension(
                              _get_placement_direction_from_rule(rule)),
                          DictGet(action, "value", 333)),
                 acc.parent_cwds, acc.preserved_dimensions)
      [] action_type = "inherit_cwd" ->
           IF DictGet(action, "enabled", FALSE)
           THEN Track(acc, i, action_type,
                      LayoutResult(Truthy(workspace)
                                     /\ Truthy(get_parent_cwd(acc.parent_cwds, workspace, t)),
                                   WorkspaceIo(conn, acc.io)),
                      IF Truthy(workspace)
                      THEN AfterGet(acc.parent_cwds, workspace, t)
                      ELSE acc.parent_cwds,
                      acc.preserved_dimensions)
           ELSE Track(acc, i, action_type, LayoutResult(TRUE, acc.io),
                      acc.parent_cwds, acc.preserved_dimensions)
      [] action_type = "preserve_column" ->
           IF DictGet(action, "enabled", FALSE)
           THEN Track(acc, i, action_type,
                      LayoutResult(Truthy(workspace)
                                     /\ GetEntry(acc.preserved_dimensions, workspace, t) # NoneRec,
                                   WorkspaceIo(conn, acc.io)),
                      acc.parent_cwds,
                      IF Truthy(workspace)
                      THEN AfterGet(acc.preserved_dimensions, workspace, t)
                      ELSE acc.preserved_dimensions)
           ELSE Track(acc, i, action_type, LayoutResult(TRUE, acc.io),
                      acc.parent_cwds, acc.preserved_dimensions)
      [] OTHER ->
           Track(acc, i, action_type, LayoutResult(FALSE, acc.io),
                 acc.parent_cwds, acc.preserved_dimensions)

\* one iteration of the loop of _execute_child_actions, on action i at time t
ChildAction(conn, rule, acc, i, t) ==
    LET action == rule.actions[i]
        action_type == DictGet(action, "action", "unknown")
        workspace == _get_current_workspace(conn)
    IN
    CASE action_type = "set_mode" -> acc
      [] action_type = "place" ->
           Track(acc, i, action_type,
                 place_window(conn, acc.io, DictGet(action, "direction", "below")),
                 acc.parent_cwds, acc.preserved_dimensions)
      [] action_type = "size_ratio" ->
           Track(acc, i, action_type,
                 set_size(conn, acc.io,
                          _map_direction_to_dimension(
                              _get_placement_direction_from_rule(rule)),
                          DictGet(action, "value", 333)),
                 acc.parent_cwds, acc.preserved_dimensions)
      [] action_type = "inherit_cwd" ->
           IF DictGet(action, "enabled", FALSE)
           THEN Track(acc, i, action_type,
                      LayoutResult(Truthy(workspace), WorkspaceIo(conn, acc.io)),
                      IF Truthy(workspace)
                      THEN AfterGet(acc.parent_cwds, workspace, t)
                      ELSE acc.parent_cwds,
                      acc.preserved_dimensions)
           ELSE Track(acc, i, action_type, LayoutResult(TRUE, acc.io),
                      acc.parent_cwds, acc.preserved_dimensions)
      [] action_type = "preserve_column" ->
           IF DictGet(action, "enabled", FALSE)
           THEN Track(acc, i, action_type,
                      LayoutResult(Truthy(workspace), WorkspaceIo(conn, acc.io)),
                      acc.parent_cwds,
                      IF Truthy(workspace)
                      THEN AfterGet(acc.preserved_dimensions, workspace, t)
                      ELSE acc.preserved_dimensions)
           ELSE Track(acc, i, action_type, LayoutResult(TRUE, acc.io),
                      acc.parent_cwds, acc.preserved_dimensions)
      [] OTHER ->
           Track(acc, i, action_type, LayoutResult(FALSE, acc.io),
                 acc.parent_cwds, acc.preserved_dimensions)

RECURSIVE ChildLoop(_, _, _, _, _)
ChildLoop(conn, rule, acc, i, t) ==
    IF i > Len(rule.actions) THEN acc
    ELSE LET done == ChildAction(conn, rule, acc, i, t)
         IN ChildLoop(conn, rule, done,
                      AfterAction(done, i, Len(rule.actions)), t)

\* the dict a phase returns
Report(rule_name, acc) ==
    [handled |-> Handled(acc.actions_executed, acc.actions_failed),
     rule_name |-> rule_name,
     actions_executed |-> acc.actions_executed,
     actions_failed |-> acc.actions_failed]

\* main._execute_child_actions(i3, container, rule): the acc its loop leaves
\* and the dict it returns
_execute_child_actions(conn, rule, cwds, dims, t) ==
    LET acc == ChildLoop(conn, rule, Acc(NoIo, <<>>, <<>>, <<>>, cwds, dims), 1, t)
    IN [acc |-> acc, result |-> Report(rule.name, acc)]

\* a parent phase that runs every action of the rule
PreAction_RunsAll(conn, action, acc, i) ==
    IF DictGet(action, "action", None) = "place"
    THEN Track(acc, i, "place",
               place_window(conn, acc.io, DictGet(action, "direction", "below")),
               acc.parent_cwds, acc.preserved_dimensions)
    ELSE Track(acc, i, "set_mode",
               set_mode(conn, acc.io, DictGet(action, "mode", "v"),
                        DictGet(action, "modifier", None)),
               acc.parent_cwds, acc.preserved_dimensions)

\* one iteration of the loop of _pre_execute_mode_actions
PreAction(conn, action, acc, i) ==
    IF DictGet(action, "action", None) = "set_mode"
    THEN Track(acc, i, "set_mode",
               set_mode(conn, acc.io, DictGet(action, "mode", "v"),
                        DictGet(action, "modifier", None)),
               acc.parent_cwds, acc.preserved_dimensions)
    ELSE acc

RECURSIVE PreLoop(_, _, _, _)
PreLoop(conn, rule, acc, i) ==
    IF i > Len(rule.actions) THEN acc
    ELSE PreLoop(conn, rule, PreAction(conn, rule.actions[i], acc, i), i + 1)

\* main._pre_execute_mode_actions(i3, rule): it returns nothing; the acc
\* records what its loop did
_pre_execute_mode_actions(conn, rule) ==
    PreLoop(conn, rule, Acc(NoIo, <<>>, <<>>, <<>>, <<>>, <<>>), 1)

\* one iteration of the loop of RuleEngine.execute_rule
RuleAction(conn, container, rule, acc, i, t) ==
    LET action == rule.actions[i]
        action_type == DictGet(action, "action", "unknown")
        workspace == _get_current_workspace(conn)
        cwd == get_process_cwd(container.pid)
    IN
    CASE action_type = "set_mode" ->
           Track(acc, i, action_type,
                 set_mode(conn, acc.io, DictGet(action, "mode", "v"),
                          DictGet(action, "modifier", None)),
                 acc.parent_cwds, acc.preserved_dimensions)
      [] action_type = "place" ->
           Track(acc, i, action_type,
                 place_window(conn, acc.io, DictGet(action, "direction", "below")),
                 acc.parent_cwds, acc.preserved_dimensions)
      [] action_type = "size_ratio" ->
           Track(acc, i, action_type,
                 set_size(conn, acc.io,
                          _map_direction_to_dimension(
                              _get_placement_direction_from_actions(rule.actions)),
                          DictGet(action, "value", 333)),
                 acc.parent_cwds, acc.preserved_dimensions)
      [] action_type = "inherit_cwd" ->
           IF ~DictGet(action, "enabled", FALSE)
           THEN Track(acc, i, action_type, LayoutResult(TRUE, acc.io),
                      acc.parent_cwds, acc.preserved_dimensions)
           ELSE IF ~Truthy(container.pid) \/ ~Truthy(cwd)
                THEN Track(acc, i, action_type, LayoutResult(FALSE, acc.io),
                           acc.parent_cwds, acc.preserved_dimensions)
           ELSE Track(acc, i, action_type,
                      LayoutResult(Truthy(workspace), WorkspaceIo(conn, acc.io)),
                      IF Truthy(workspace)
                      THEN store_parent_cwd(acc.parent_cwds, workspace, container.id,
                                            cwd, t, DefaultStoreTtl)
                      ELSE acc.parent_cwds,
                      acc.preserved_dimensions)
      [] action_type = "preserve_column" ->
           IF ~DictGet(action, "enabled", FALSE)
           THEN Track(acc, i, action_type, LayoutResult(TRUE, acc.io),
                      acc.parent_cwds, acc.preserved_dimensions)
           ELSE Track(acc, i, action_type,
                      LayoutResult(Truthy(workspace), WorkspaceIo(conn, acc.io)),
                      acc.parent_cwds,
                      IF Truthy(workspace)
                      THEN store_preserved_dimensions(
                               acc.preserved_dimensions, workspace, container.id,
                               ZeroDimensions, t, DefaultStoreTtl)
                      ELSE acc.preserved_dimensions)
      [] OTHER ->
           Track(acc, i, action_type, LayoutResult(FALSE, acc.io),
                 acc.parent_cwds, acc.preserved_dimensions)

RECURSIVE RuleLoop(_, _, _, _, _, _)
RuleLoop(conn, container, rule, acc, i, t) ==
    IF i > Len(rule.actions) THEN acc
    ELSE RuleLoop(conn, container, rule,
                  RuleAction(conn, container, rule, acc, i, t), i + 1, t)

\* RuleEngine.execute_rule(i3_connection, container, rule_dict), entered with
\* the io and the stores of acc0 and empty lists: the acc its loop leaves and
\* the dict it returns; a rule_dict that does not parse is
\* reported by the outer except, whose message reads rule_dict.get('name')
execute_rule(conn, container, rule_dict, acc0, t) ==
    LET parsed == _parse_rule(rule_dict)
    IN IF parsed.raised
       THEN [acc |-> [acc0 EXCEPT !.io.caught = @ \cup {"execute_rule"}],
             result |-> [handled |-> FALSE, error |-> parsed.exc,
                         rule_name |-> StrOf(ObjGet(rule_dict, "name",
                                                    Str("unnamed")))]]
       ELSE LET acc == RuleLoop(conn, container, parsed.value, acc0, 1, t)
            IN [acc |-> acc, result |-> Report(parsed.value.name, acc)]

----------------------------------------------------------------------------
(* The operations, one action each *)

IdleSweep == [pc |-> "idle", current_time |-> 0]

StoreVars == <<relationships, pending_rules, parent_cwds, preserved_dimensions>>

NoCall == [op |-> "none"]

\* time passes; call and ret describe a call made at the present instant
Tick ==
    /\ now < MaxTime
    /\ now' = now + 1
    /\ call' = NoCall
    /\ ret' = NoneRec
    /\ UNCHANGED <<rules, StoreVars, sweep, rules_list>>
    /\ UNCHANGED exec_vars

\* RuleEngine.store_pending_rule(workspace, rule, parent_container, expires_in);
\* found is the entry the dict held before the call
StorePendingRule(workspace, rule, parent_container, expires_in) ==
    /\ pending_rules' =
           store_pending_rule(pending_rules, workspace, rule, parent_container.id,
                              detect_app_context(parent_container), now, expires_in)
    /\ call' = [op |-> "store_pending_rule", workspace |-> workspace, rule |-> rule,
                parent_container |-> parent_container, expires_in |-> expires_in,
                found |-> DictGet(pending_rules, workspace, NoneRec)]
    /\ ret' = NoneRec
    /\ UNCHANGED <<now, rules, relationships, parent_cwds, preserved_dimensions,
                   sweep, rules_list>>
    /\ UNCHANGED exec_vars

\* RuleEngine.get_pending_rule(workspace); found is the entry the dict held
GetPendingRule(workspace) ==
    /\ ret' = get_pending_rule(pending_rules, workspace, now)
    /\ pending_rules' = AfterGet(pending_rules, workspace, now)
    /\ call' = [op |-> "get_pending_rule", workspace |-> workspace,
                found |-> DictGet(pending_rules, workspace, NoneRec)]
    /\ UNCHANGED <<now, rules, relationships, parent_cwds, preserved_dimensions,
                   sweep, rules_list>>
    /\ UNCHANGED exec_vars

\* a check that matches the child against the rules the engine holds now
CheckResult_Rematches(pending_rule_info, child_container) ==
    IF pending_rule_info = NoneRec THEN NoneRec
    ELSE IF \E i \in 1..Len(rules) : match_child(child_container, rules[i])
         THEN rules[CHOOSE i \in 1..Len(rules) :
                       /\ match_child(child_container, rules[i])
                       /\ \A j \in 1..(i - 1) : ~match_child(child_container, rules[j])]
         ELSE NoneRec

\* check_child_against_pending_rules once the pending rule is read: the rule
\* it returns (NoneRec for None)
CheckResult(pending_rule_info, child_container) ==
    IF pending_rule_info = NoneRec THEN NoneRec
    ELSE IF match_child(child_container, pending_rule_info.rule)
         THEN pending_rule_info.rule
         ELSE NoneRec

\* a check that returns the rule without recording the relationship
CheckRelationships_NoStore(d, pending_rule_info, child_container, t) == d

\* and the relationships it leaves
CheckRelationships(d, pending_rule_info, child_container, t) ==
    IF pending_rule_info = NoneRec THEN d
    ELSE IF match_child(child_container, pending_rule_info.rule)
         THEN IF Truthy(child_container.id) /\ Truthy(pending_rule_info.parent_id)
              THEN store_relationship(d, child_container.id,
                                      pending_rule_info.parent_id,
                                      pending_rule_info.rule.name,
                                      pending_rule_info.context, t)
              ELSE d
         ELSE d

\* a check that clears the pending rule when the child does not match it
AfterCheck_ClearsOnMiss(d, workspace, child_container, t) ==
    LET info == get_pending_rule(d, workspace, t) IN
    IF info # NoneRec /\ ~match_child(child_container, info.rule)
    THEN DictDel(d, workspace)
    ELSE AfterGet(d, workspace, t)

\* a check that consumes the pending rule when the child matches it
AfterCheck_Consumes(d, workspace, child_container, t) ==
    LET info == get_pending_rule(d, workspace, t) IN
    IF info # NoneRec /\ match_child(child_container, info.rule)
    THEN DictDel(d, workspace)
    ELSE AfterGet(d, workspace, t)

\* and the pending rules it leaves: it touches them through get_pending_rule only
AfterCheck(d, workspace, child_container, t) == AfterGet(d, workspace, t)

\* RuleEngine.check_child_against_pending_rules(child_container, workspace)
CheckChild(child_container, workspace) ==
    LET pending_rule_info == get_pending_rule(pending_rules, workspace, now) IN
    /\ pending_rules' = AfterCheck(pending_rules, workspace, child_container, now)
    /\ relationships' =
           CheckRelationships(relationships, pending_rule_info, child_container, now)
    /\ ret' = CheckResult(pending_rule_info, child_container)
    /\ call' = [op |-> "check_child_against_pending_rules",
                child_container |-> child_container, workspace |-> workspace,
                found |-> DictGet(pending_rules, workspace, NoneRec)]
    /\ UNCHANGED <<now, rules, parent_cwds, preserved_dimensions, sweep, rules_list>>
    /\ UNCHANGED exec_vars

\* StateManager.store_parent_cwd(workspace, parent_id, cwd, expires_in)
StoreParentCwd(workspace, parent_id, cwd, expires_in) ==
    /\ parent_cwds' =
           store_parent_cwd(parent_cwds, workspace, parent_id, cwd, now, expires_in)
    /\ call' = [op |-> "store_parent_cwd", workspace |-> workspace,
                parent_id |-> parent_id, cwd |-> cwd, expires_in |-> expires_in]
    /\ ret' = NoneRec
    /\ UNCHANGED <<now, rules, relationships, pending_rules, preserved_dimensions,
                   sweep, rules_list>>
    /\ UNCHANGED exec_vars

\* StateManager.get_parent_cwd(workspace)
GetParentCwd(workspace) ==
    /\ ret' = get_parent_cwd(parent_cwds, workspace, now)
    /\ parent_cwds' = AfterGet(parent_cwds, workspace, now)
    /\ call' = [op |-> "get_parent_cwd", workspace |-> workspace,
                found |-> DictGet(parent_cwds, workspace, NoneRec)]
    /\ UNCHANGED <<now, rules, relationships, pending_rules, preserved_dimensions,
                   sweep, rules_list>>
    /\ UNCHANGED exec_vars

\* StateManager.store_preserved_dimensions(workspace, container_id, dimensions, expires_in)
StorePreservedDimensions(workspace, container_id, dimensions, expires_in) ==
    /\ preserved_dimensions' =
           store_preserved_dimensions(preserved_dimensions, workspace, container_id,
                                      dimensions, now, expires_in)
    /\ call' = [op |-> "store_preserved_dimensions", workspace |-> workspace,
                container_id |-> container_id, dimensions |-> dimensions,
                expires_in |-> expires_in]
    /\ ret' = NoneRec
    /\ UNCHANGED <<now, rules, relationships, pending_rules, parent_cwds,
                   sweep, rules_list>>
    /\ UNCHANGED exec_vars

\* StateManager.get_preserved_dimensions(workspace)
GetPreservedDimensions(workspace) ==
    /\ ret' = get_preserved_dimensions(preserved_dimensions, workspace, now)
    /\ preserved_dimensions' = AfterGet(preserved_dimensions, workspace, now)
    /\ call' = [op |-> "get_preserved_dimensions", workspace |-> workspace,
                found |-> DictGet(preserved_dimensions, workspace, NoneRec)]
    /\ UNCHANGED <<now, rules, relationships, pending_rules, parent_cwds,
                   sweep, rules_list>>
    /\ UNCHANGED exec_vars

\* cleanup_expired_state, first statement: the clock is read outside the lock
CleanupReadClock ==
    /\ sweep.pc = "idle"
    /\ sweep' = [pc |-> "read", current_time |-> now]
    /\ UNCHANGED <<now, rules, StoreVars, call, ret, rules_list>>
    /\ UNCHANGED exec_vars

\* cleanup_expired_state, the block under the lock
CleanupSweep ==
    /\ sweep.pc = "read"
    /\ pending_rules' = Cleaned(pending_rules, sweep.current_time)
    /\ parent_cwds' = Cleaned(parent_cwds, sweep.current_time)
    /\ preserved_dimensions' = Cleaned(preserved_dimensions, sweep.current_time)
    /\ sweep' = IdleSweep
    /\ call' = [op |-> "cleanup_expired_state", current_time |-> sweep.current_time]
    /\ ret' = NoneRec
    /\ relationships' = CleanedRelationships(relationships, sweep.current_time)
    /\ UNCHANGED <<now, rules, rules_list>>
    /\ UNCHANGED exec_vars

----------------------------------------------------------------------------
(* The rule engine over the state store: parent matches are recorded and   *)
(* new windows are resolved against them while time passes and the         *)
(* maintenance thread sweeps.                                              *)

\* no handler of main.py has run
IdleConnection == Connection(<<"ok">>, "1")

ExecIdle ==
    /\ i3 = IdleConnection
    /\ commands = <<>>
    /\ attempted = <<>>
    /\ caught = {}
    /\ geometry = 0
    /\ phase = "idle"
    /\ config = NoneRec
    /\ lock = None
    /\ pcs = <<>>
    /\ shadow = NoneRec

Init ==
    /\ now = 0
    /\ rules = load_rules(ConfigRules).rules
    /\ relationships = <<>>
    /\ pending_rules = <<>>
    /\ parent_cwds = <<>>
    /\ preserved_dimensions = <<>>
    /\ sweep = IdleSweep
    /\ call = NoCall
    /\ ret = NoneRec
    /\ rules_list = ConfigRules
    /\ ExecIdle

Next ==
    \/ Tick
    \/ \E ws \in Workspaces, p \in ParentContainers, ttl \in Ttls :
          /\ match_parent(rules, p) # NoneRec
          /\ StorePendingRule(ws, match_parent(rules, p), p, ttl)
    \/ \E ws \in Workspaces : GetPendingRule(ws)
    \/ \E c \in ChildContainers, ws \in Workspaces : CheckChild(c, ws)
    \/ CleanupReadClock
    \/ CleanupSweep

Spec == Init /\ [][Next]_vars

----------------------------------------------------------------------------
(* The three expiring stores of the state manager on one workspace, each   *)
(* written and read while time passes and the maintenance thread sweeps.   *)

StoreWorkspace == "1"
Cwds == {"/home/u"}
Dimensions == {"width=800"}

StoreNext ==
    \/ Tick
    \/ \E p \in ParentContainers, ttl \in Ttls :
          /\ match_parent(rules, p) # NoneRec
          /\ StorePendingRule(StoreWorkspace, match_parent(rules, p), p, ttl)
    \/ GetPendingRule(StoreWorkspace)
    \/ \E cwd \in Cwds, ttl \in Ttls : StoreParentCwd(StoreWorkspace, "p1", cwd, ttl)
    \/ GetParentCwd(StoreWorkspace)
    \/ \E dim \in Dimensions, ttl \in Ttls :
          StorePreservedDimensions(StoreWorkspace, "p1", dim, ttl)
    \/ GetPreservedDimensions(StoreWorkspace)
    \/ CleanupReadClock
    \/ CleanupSweep

StoreSpec == Init /\ [][StoreNext]_vars

----------------------------------------------------------------------------
(* Loading a list of rule dictionaries and matching windows against the    *)
(* rules it leaves in the engine.                                          *)

CompleteA ==
    Dict(<< <<"name", Str("a")>>,
            <<"parent", Dict(<< <<"app_id", List(<<Str("kitty")>>)>> >>)>>,
            <<"child", Dict(<< <<"app_id", Str("kitty")>> >>)>>,
            <<"actions", List(<<Dict(<< <<"place", Str("below")>> >>)>>)>> >>)

CompleteB ==
    Dict(<< <<"name", Str("b")>>,
            <<"parent", Dict(<< <<"title_pattern", List(<<Str("*VIM*")>>)>> >>)>>,
            <<"child", EmptyDict>>,
            <<"actions", List(<<>>)>> >>)

CompleteC ==
    Dict(<< <<"name", Str("c")>>,
            <<"parent", Dict(<< <<"class", Str("Firefox")>>,
                                <<"title_pattern", List(<<Str(""), Str("?h")>>)>> >>)>>,
            <<"child", EmptyDict>>,
            <<"actions", List(<<Str("size_ratio: 0.5")>>)>> >>)

\* {'invalid': 'rule'}
NoFields == Dict(<< <<"invalid", Str("rule")>> >>)

\* {'name': 'invalid_rule'}
OnlyName == Dict(<< <<"name", Str("invalid_rule")>> >>)

\* a parent that is a string, not a dict
BadParent ==
    Dict(<< <<"name", Str("bad_parent")>>, <<"parent", Str("kitty")>>,
            <<"child", EmptyDict>>, <<"actions", List(<<>>)>> >>)

\* actions: null
BadActions ==
    Dict(<< <<"name", Str("bad_actions")>>, <<"parent", EmptyDict>>,
            <<"child", EmptyDict>>, <<"actions", NoneRec>> >>)

\* an entry of the list that is a string, not a dict
NotADict == Str("editor_terminal")

RuleDicts ==
    {CompleteA, CompleteB, CompleteC, NoFields, OnlyName, BadParent, BadActions,
     NotADict}

RulesLists == UNION {[1..n -> RuleDicts] : n \in 0..MaxRules}

MatchWindows ==
    {Window("w1", "kitty", None, "Nvim"), Window("w2", "firefox", "Firefox", None),
     Window("w3", "foot", None, ""), Window("w4", None, None, "sh")}

\* RuleEngine.load_rules(rules_list); self.rules keeps what was appended
\* before an exception left the loop
LoadRules ==
    /\ call = NoCall
    /\ rules' = load_rules(rules_list).rules
    /\ ret' = IF load_rules(rules_list).raised THEN Raise("AttributeError")
              ELSE Return(None)
    /\ call' = [op |-> "load_rules"]
    /\ UNCHANGED <<now, StoreVars, sweep, rules_list>>
    /\ UNCHANGED exec_vars

\* RuleEngine.match_parent(container)
MatchParent(container) ==
    /\ call # NoCall
    /\ ret' = match_parent(rules, container)
    /\ call' = [op |-> "match_parent", container |-> container]
    /\ UNCHANGED <<now, rules, StoreVars, sweep, rules_list>>
    /\ UNCHANGED exec_vars

LoadInit ==
    /\ now = 0
    /\ rules = <<>>
    /\ relationships = <<>>
    /\ pending_rules = <<>>
    /\ parent_cwds = <<>>
    /\ preserved_dimensions = <<>>
    /\ sweep = IdleSweep
    /\ call = NoCall
    /\ ret = NoneRec
    /\ rules_list \in RulesLists
    /\ ExecIdle

LoadNext ==
    \/ LoadRules
    \/ \E w \in MatchWindows : MatchParent(w)

LoadSpec == LoadInit /\ [][LoadNext]_vars

----------------------------------------------------------------------------
(* The two phases of main.py and execute_rule, each called on the rule of  *)
(* a one-rule configuration over a connection that accepts, rejects or     *)
(* fails the commands it is given.                                         *)

\* the longest list of actions a rule is configured with
MaxActions == 3

\* the entries an actions list is made of, in both syntaxes
ActionConfigs ==
    {Dict(<< <<"place", Str("below")>> >>),
     Dict(<< <<"place", Str("right")>> >>),
     Str("set_mode: v after"),
     Dict(<< <<"size_ratio", Float(333)>> >>),
     Dict(<< <<"frobnicate", Str("x")>> >>),
     Dict(<< <<"inherit_cwd", Bool(TRUE)>> >>)}

RuleDictWith(actions) ==
    Dict(<< <<"name", Str("r")>>,
            <<"parent", Dict(<< <<"app_id", List(<<Str("kitty")>>)>> >>)>>,
            <<"child", EmptyDict>>,
            <<"actions", List(actions)>> >>)

ExecConfigs ==
    {<<RuleDictWith(actions)>> :
        actions \in UNION {[1..n -> ActionConfigs] : n \in 0..MaxActions}}

\* connections that answer the first command one way and the later ones
\* another
ConnectionsOn(workspaces) ==
    {Connection(<<first, later>>, focused) :
        first \in Replies, later \in Replies, focused \in workspaces}

Connections == ConnectionsOn({"1", None})

\* the windows execute_rule is called on: one with a process, one without
ExecContainers ==
    {[Container("p1", "kitty", "Nvim") EXCEPT !.pid = "42"],
     Container("c2", "kitty", "sh")}

\* what a call leaves of the io and the stores its loop carried
Leaves(acc) ==
    /\ commands' = acc.io.commands
    /\ caught' = acc.io.caught
    /\ attempted' = acc.attempted
    /\ parent_cwds' = acc.parent_cwds
    /\ preserved_dimensions' = acc.preserved_dimensions

\* _execute_child_actions(i3, container, rule) on the rule of the engine
ExecuteChildActions(container) ==
    LET done == _execute_child_actions(i3, rules[1], parent_cwds,
                                       preserved_dimensions, now)
    IN /\ Len(rules) >= 1
       /\ Leaves(done.acc)
       /\ ret' = done.result
       /\ call' = [op |-> "_execute_child_actions", rule |-> rules[1]]
       /\ UNCHANGED <<now, rules, relationships, pending_rules, sweep, rules_list,
                      i3, geometry, phase, config, lock, pcs, shadow>>

\* _pre_execute_mode_actions(i3, rule) on the rule of the engine
PreExecuteModeActions ==
    LET acc == _pre_execute_mode_actions(i3, rules[1])
    IN /\ Len(rules) >= 1
       /\ commands' = acc.io.commands
       /\ caught' = acc.io.caught
       /\ attempted' = acc.attempted
       /\ ret' = NoneRec
       /\ call' = [op |-> "_pre_execute_mode_actions", rule |-> rules[1]]
       /\ UNCHANGED <<now, rules, StoreVars, sweep, rules_list, i3, geometry, phase, config, lock, pcs, shadow>>

\* RuleEngine.execute_rule(i3, container, rule_dict) on the rule dictionary
\* of the configuration
ExecuteRule(container) ==
    LET done == execute_rule(i3, container, rules_list[1],
                             Acc(NoIo, <<>>, <<>>, <<>>, parent_cwds,
                                 preserved_dimensions), now)
    IN /\ Len(rules_list) >= 1
       /\ Leaves(done.acc)
       /\ ret' = done.result
       /\ call' = [op |-> "execute_rule", container |-> container,
                   rule_dict |-> rules_list[1]]
       /\ UNCHANGED <<now, rules, relationships, pending_rules, sweep, rules_list,
                      i3, geometry, phase, config, lock, pcs, shadow>>

ExecInit ==
    /\ now = 0
    /\ rules_list \in ExecConfigs
    /\ rules = load_rules(rules_list).rules
    /\ relationships = <<>>
    /\ pending_rules = <<>>
    /\ parent_cwds = <<>>
    /\ preserved_dimensions = <<>>
    /\ sweep = IdleSweep
    /\ call = NoCall
    /\ ret = NoneRec
    /\ i3 \in Connections
    /\ commands = <<>>
    /\ attempted = <<>>
    /\ caught = {}
    /\ geometry = 0
    /\ phase = "idle"
    /\ config = NoneRec
    /\ lock = None
    /\ pcs = <<>>
    /\ shadow = NoneRec

ExecNext ==
    \/ \E c \in ChildContainers : ExecuteChildActions(c)
    \/ PreExecuteModeActions
    \/ \E c \in ExecContainers : ExecuteRule(c)

ExecSpec == ExecInit /\ [][ExecNext]_vars

----------------------------------------------------------------------------
(* The child phase on rules that inherit the directory and preserve the    *)
(* column, with the stores it looks into written while time passes.        *)

\* the entries of the actions lists: both actions enabled and disabled, and
\* one action that sends a command
ChildActionConfigs ==
    {Dict(<< <<"inherit_cwd", Bool(TRUE)>> >>),
     Dict(<< <<"inherit_cwd", Bool(FALSE)>> >>),
     Dict(<< <<"preserve_column", Bool(TRUE)>> >>),
     Dict(<< <<"preserve_column", Bool(FALSE)>> >>),
     Dict(<< <<"place", Str("below")>> >>)}

MaxChildActions == 2

ChildConfigs ==
    {<<RuleDictWith(actions)>> :
        actions \in UNION {[1..n -> ChildActionConfigs] : n \in 1..MaxChildActions}}

\* connections on a known workspace, on none, and with a get_tree that fails
ChildConnections ==
    {Connection(<<first, "ok">>, focused) :
        first \in {"ok", "raises"}, focused \in {"1", None, "raises"}}

ChildInit ==
    /\ now = 0
    /\ rules_list \in ChildConfigs
    /\ rules = load_rules(rules_list).rules
    /\ relationships = <<>>
    /\ pending_rules = <<>>
    /\ parent_cwds = <<>>
    /\ preserved_dimensions = <<>>
    /\ sweep = IdleSweep
    /\ call = NoCall
    /\ ret = NoneRec
    /\ i3 \in ChildConnections
    /\ commands = <<>>
    /\ attempted = <<>>
    /\ caught = {}
    /\ geometry = 0
    /\ phase = "idle"
    /\ config = NoneRec
    /\ lock = None
    /\ pcs = <<>>
    /\ shadow = NoneRec

ChildNext ==
    \/ Tick
    \/ StoreParentCwd("1", "p1", "/home/u", 1)
    \/ StorePreservedDimensions("1", "p1", "width=800", 1)
    \/ ExecuteChildActions(Container("c2", "kitty", "sh"))

ChildSpec == ChildInit /\ [][ChildNext]_vars

----------------------------------------------------------------------------
(* The methods of the layout manager, each called on a connection.         *)

Directions == {"below", "above", "right", "left", "sideways", ""}

\* what a call of a method of the layout manager leaves: the commands it
\* issued, what it caught and the bool it returned
LayoutCall(r) ==
    /\ commands' = r.io.commands
    /\ caught' = r.io.caught
    /\ attempted' = <<>>
    /\ ret' = Bool(r.success)
    /\ UNCHANGED <<now, rules, StoreVars, sweep, rules_list, i3, geometry, phase,
                   config, lock, pcs, shadow>>

\* ScrollLayoutManager.place_window(i3_connection, direction)
PlaceWindow(direction) ==
    LET r == place_window(i3, NoIo, direction)
    IN /\ LayoutCall(r)
       /\ call' = [op |-> "place_window", direction |-> direction]

\* ScrollLayoutManager.set_mode(i3_connection, mode, modifier)
SetMode(mode, modifier) ==
    LET r == set_mode(i3, NoIo, mode, modifier)
    IN /\ LayoutCall(r)
       /\ call' = [op |-> "set_mode", mode |-> mode, modifier |-> modifier]

\* ScrollLayoutManager.set_size(i3_connection, dimension, ratio)
SetSize(dimension, ratio) ==
    LET r == set_size(i3, NoIo, dimension, ratio)
    IN /\ LayoutCall(r)
       /\ call' = [op |-> "set_size", dimension |-> dimension, ratio |-> ratio]

\* safe_command(i3_connection, command)
SafeCommand(command) ==
    LET r == safe_command(i3, NoIo, command)
    IN /\ LayoutCall(r)
       /\ call' = [op |-> "safe_command", command |-> command]

\* every answer i3.command can give
AllReplies == Replies \cup {"empty", "partial", "both"}

LayoutConnections ==
    {Connection(<<first, later>>, focused) :
        first \in AllReplies, later \in AllReplies,
        focused \in {"1", None, "raises"}}

Modes == {"h", "v", "x"}
Modifiers == {None, "", "after", "before", "end", "beg", "sideways"}
Ratios == {50, 100, 333, 900, 1000}

\* a rule that places below and then resizes
PlaceSizeRule ==
    RuleDictWith(<<Dict(<< <<"place", Str("below")>> >>),
                   Dict(<< <<"size_ratio", Float(333)>> >>)>>)

LayoutInit ==
    /\ now = 0
    /\ rules_list = <<PlaceSizeRule>>
    /\ rules = load_rules(rules_list).rules
    /\ relationships = <<>>
    /\ pending_rules = <<>>
    /\ parent_cwds = <<>>
    /\ preserved_dimensions = <<>>
    /\ sweep = IdleSweep
    /\ call = NoCall
    /\ ret = NoneRec
    /\ i3 \in LayoutConnections
    /\ commands = <<>>
    /\ attempted = <<>>
    /\ caught = {}
    /\ geometry = 0
    /\ phase = "idle"
    /\ config = NoneRec
    /\ lock = None
    /\ pcs = <<>>
    /\ shadow = NoneRec

LayoutNext ==
    \/ \E direction \in Directions : PlaceWindow(direction)
    \/ \E mode \in Modes, modifier \in Modifiers : SetMode(mode, modifier)
    \/ \E dimension \in Modes, ratio \in Ratios : SetSize(dimension, ratio)
    \/ \E command \in {"set_mode h", "nop"} : SafeCommand(command)
    \/ \E c \in ChildContainers : ExecuteChildActions(c)

LayoutSpec == LayoutInit /\ [][LayoutNext]_vars

----------------------------------------------------------------------------
(* The placement flow of the layout manager, called on a focused editor.   *)

\* ScrollLayoutManager.restore_original_mode(i3_connection), with
\* original_modes the _original_modes set_mode has filled; every mode that
\* _get_current_mode reports is "set_mode h after"
restore_original_mode(conn, io, original_modes) ==
    LET workspace == _get_current_workspace(conn) IN
    IF ~Truthy(workspace) THEN LayoutResult(FALSE, WorkspaceIo(conn, io))
    ELSE IF workspace \notin DOMAIN original_modes THEN LayoutResult(TRUE, io)
    ELSE set_mode(conn, io, "h", "after")

\* the mark command of the placement flow; the mark id, made of the time and
\* of a uuid, is held as one fresh name
MarkCommand(parent) == ("[con_id=" \o parent) \o "] mark --add _smart_parent"

\* the rule the placement flow leaves pending
NeovimRule(terminal_size_ratio) ==
    [type |-> "neovim_terminal", size_ratio |-> terminal_size_ratio]

NeovimContext(neovim_container, parent, terminal_size_ratio) ==
    [neovim_container_id |-> neovim_container.id,
     mark_id |-> IF Truthy(parent) THEN "_smart_parent" ELSE None,
     terminal_size_ratio |-> terminal_size_ratio]

\* expires_in=15.0 of the placement flow
PlacementTimeout == 15

PlacementResult(success, io, pending) ==
    [success |-> success, io |-> io, pending |-> pending]

\* ScrollLayoutManager.execute_neovim_terminal_placement(i3_connection,
\* neovim_container, terminal_size_ratio) on the pending rules d at time t;
\* parent is getattr(neovim_container, 'parent', None).  The mark command is
\* called in the try of the whole method: when it raises, the except clause
\* restores the mode place_window saved and returns False.
execute_neovim_terminal_placement(conn, io, d, neovim_container, parent, t, terminal_size_ratio) ==
    LET placed == place_window(conn, io, "below")
        marked == IF Truthy(parent)
                  THEN Command(conn, placed.io, MarkCommand(parent),
                               "execute_neovim_terminal_placement")
                  ELSE LayoutResult(TRUE, placed.io)
        raised == /\ Truthy(parent)
                  /\ Reply(conn, Len(placed.io.commands) + 1) = "raises"
        workspace == _get_current_workspace(conn)
        original_modes == IF Truthy(workspace)
                          THEN [w \in {workspace} |-> "set_mode h after"]
                          ELSE <<>>
    IN IF ~placed.success THEN PlacementResult(FALSE, placed.io, d)
       ELSE IF raised
       THEN PlacementResult(FALSE,
                restore_original_mode(conn, marked.io, original_modes).io, d)
       ELSE PlacementResult(TRUE, WorkspaceIo(conn, marked.io),
                IF Truthy(workspace)
                THEN store_pending_rule(d, workspace,
                         NeovimRule(terminal_size_ratio), neovim_container.id,
                         NeovimContext(neovim_container, parent,
                                       terminal_size_ratio),
                         t, PlacementTimeout)
                ELSE d)

\* the parent attribute of the editor: the id of a container, or None
PlacementParents == {"67890", None}

PlacementOp == "execute_neovim_terminal_placement"

\* layout_manager.execute_neovim_terminal_placement(i3, neovim_container)
NeovimTerminalPlacement(neovim_container, parent) ==
    LET r == execute_neovim_terminal_placement(i3, NoIo, pending_rules,
                 neovim_container, parent, now, 333)
    IN /\ commands' = r.io.commands
       /\ caught' = r.io.caught
       /\ pending_rules' = r.pending
       /\ ret' = Bool(r.success)
       /\ call' = [op |-> PlacementOp, container |-> neovim_container,
                   parent |-> parent]
       /\ attempted' = <<>>
       /\ UNCHANGED <<now, rules, relationships, parent_cwds,
                      preserved_dimensions, sweep, rules_list, i3, geometry,
                      phase, config, lock, pcs, shadow>>

PlacementNext ==
    \/ \E parent \in PlacementParents :
          NeovimTerminalPlacement(Container("p1", "kitty", "Nvim"), parent)
    \/ Tick

PlacementSpec == LayoutInit /\ [][PlacementNext]_vars

----------------------------------------------------------------------------
(* main.py: smart_switch_splitting, the handler of the window manager's    *)
(* events, bound to a configuration.  The event loop delivers one event at *)
(* a time.  A focus event that matches a rule is taken in two steps, the   *)
(* parent phase and then the store of the pending rule; every other event  *)
(* is one step.  switch_splitting is counted when it runs; the commands it *)
(* issues depend on the window tree and are not kept in commands.          *)

IntVal(n) == [type |-> "int", val |-> n]

\* the expires_in of _handle_parent_focus_event when the configuration has
\* no rule_timeout
DefaultRuleTimeout == 15

\* an event of the WINDOW kind, and one of the MODE kind, which has a change
\* and no container attribute
WindowEvent(change, container) == [change |-> change, container |-> container]
ModeEvent == [change |-> "default"]

Unhandled == [handled |-> FALSE]

\* a matches_rule that accepts only rules with a set_mode action
matches_rule_NeedsMode(container, rule_dict) ==
    LET parsed == _parse_rule(rule_dict) IN
    /\ ~parsed.raised
    /\ _matches_parent_criteria(container, parsed.value.parent)
    /\ \E i \in 1..Len(parsed.value.actions) :
          parsed.value.actions[i].action = "set_mode"

\* RuleEngine.matches_rule(container, rule_dict): False when parsing raises
matches_rule(container, rule_dict) ==
    LET parsed == _parse_rule(rule_dict) IN
    /\ ~parsed.raised
    /\ _matches_parent_criteria(container, parsed.value.parent)

\* a walk that falls back on the first rule when no rule dictionary matches
FirstMatch_FallsBack(container, rule_dicts, i) ==
    IF \E j \in i..Len(rule_dicts) : matches_rule(container, rule_dicts[j])
    THEN CHOOSE j \in i..Len(rule_dicts) :
            /\ matches_rule(container, rule_dicts[j])
            /\ \A h \in i..(j - 1) : ~matches_rule(container, rule_dicts[h])
    ELSE IF rule_dicts = <<>> THEN 0 ELSE 1

\* the position of the first rule dictionary from i on that matches_rule
\* accepts, 0 when there is none
RECURSIVE FirstMatch(_, _, _)
FirstMatch(container, rule_dicts, i) ==
    IF i > Len(rule_dicts) THEN 0
    ELSE IF matches_rule(container, rule_dicts[i]) THEN i
         ELSE FirstMatch(container, rule_dicts, i + 1)

\* what matches_rule caught on the rule dictionaries up to position k
MatchCaught(rule_dicts, k) ==
    IF \E i \in 1..k : _parse_rule(rule_dicts[i]).raised
    THEN {"matches_rule"} ELSE {}

\* "if config and config.get('rules')"
SmartEnabled(cfg) == DictGet(cfg, "rules", <<>>) # <<>>

\* main.py's _get_current_workspace_name(i3): the name of the focused
\* workspace, or None; an exception of get_tree is caught inside
_get_current_workspace_name(conn) ==
    IF conn.focused = "raises" THEN None ELSE conn.focused

\* the statements of handle_smart_rules before it dispatches on event.change:
\* the dict it returns there, NoneRec when it goes on, and what was caught
Prefix(conn, event) ==
    IF "container" \notin DOMAIN event
    THEN [result |-> Unhandled, caught |-> {"handle_smart_rules"}]
    ELSE IF event.container = NoneRec
    THEN [result |-> Unhandled, caught |-> {}]
    ELSE IF ~Truthy(_get_current_workspace_name(conn))
    THEN [result |-> Unhandled,
          caught |-> IF conn.focused = "raises"
                     THEN {"_get_current_workspace_name"} ELSE {}]
    ELSE [result |-> NoneRec, caught |-> {}]

\* a handler that falls back to geometry after every event
FallsThrough_Always(result) == TRUE

\* "if result and result.get('handled'): return", else switch_splitting runs
FallsThrough(result) ==
    ~(result # NoneRec /\ DictGet(result, "handled", FALSE))

\* a parent phase that is put off until the pending rule is stored
ParentPhase_Deferred(conn, rule) == Acc(NoIo, <<>>, <<>>, <<>>, <<>>, <<>>)

\* the parent phase of _handle_parent_focus_event, run before the store
ParentPhase(conn, rule) == _pre_execute_mode_actions(conn, rule)

\* a try that lets the exception of its body through
Guarded_Reraises(raised) == IF raised THEN "crashed" ELSE "idle"

\* the try of a handler: its except clause returns {'handled': False}, and
\* the handler is left normally whether its body raised or not
Guarded(raised) == "idle"

\* smart_switch_splitting returns: handle_smart_rules gave result, io is
\* what the handlers issued and caught, tried the actions they attempted
Returns(result, io, tried) ==
    /\ ret' = result
    /\ commands' = io.commands
    /\ caught' = io.caught
    /\ attempted' = tried
    /\ geometry' = IF FallsThrough(result) THEN 1 ELSE 0
    /\ phase' = Guarded(io.caught \cap {"handle_smart_rules"} # {})

\* an event that handle_smart_rules is not called for or returns from before
\* it looks at a rule
PlainEvent(event, conn) ==
    LET prefix == Prefix(conn, event) IN
    /\ phase = "idle"
    /\ ~SmartEnabled(config) \/ prefix.result # NoneRec
    /\ i3' = conn
    /\ call' = [op |-> "smart_switch_splitting", event |-> event]
    /\ IF SmartEnabled(config)
       THEN Returns(prefix.result, [commands |-> <<>>, caught |-> prefix.caught], <<>>)
       ELSE Returns(NoneRec, NoIo, <<>>)
    /\ UNCHANGED <<now, rules, StoreVars, sweep, rules_list, config, lock, pcs, shadow>>

\* a focus event, up to the call of store_pending_rule
ParentFocusEvent(event, conn) ==
    LET k == FirstMatch(event.container, config.rules, 1)
        rule == _parse_rule(config.rules[k]).value
        acc == ParentPhase(conn, rule)
    IN
    /\ phase = "idle"
    /\ SmartEnabled(config)
    /\ Prefix(conn, event).result = NoneRec
    /\ event.change = "focus"
    /\ i3' = conn
    /\ IF k = 0
       THEN /\ Returns(Unhandled,
                       [commands |-> <<>>,
                        caught |-> MatchCaught(config.rules, Len(config.rules))],
                       <<>>)
            /\ call' = [op |-> "smart_switch_splitting", event |-> event]
       ELSE /\ commands' = acc.io.commands
            /\ caught' = acc.io.caught \cup MatchCaught(config.rules, k)
            /\ attempted' = acc.attempted
            /\ ret' = NoneRec
            /\ geometry' = 0
            /\ phase' = "store"
            /\ call' = [op |-> "smart_switch_splitting", event |-> event,
                        workspace |-> _get_current_workspace_name(conn),
                        rule |-> rule]
    /\ UNCHANGED <<now, rules, StoreVars, sweep, rules_list, config, lock, pcs, shadow>>

\* the rest of _handle_parent_focus_event: store_pending_rule, whose
\* time.time() + expires_in raises TypeError unless expires_in is a number
ParentFocusStore ==
    LET expires_in == DictGet(config, "rule_timeout", IntVal(DefaultRuleTimeout))
        container == call.event.container
    IN
    /\ phase = "store"
    /\ IF expires_in.type \in {"int", "float"}
       THEN /\ pending_rules' =
                   store_pending_rule(pending_rules, call.workspace, call.rule,
                                      container.id, detect_app_context(container),
                                      now, expires_in.val)
            /\ Returns([handled |-> TRUE, rule_name |-> call.rule.name,
                        action |-> "pending"],
                       [commands |-> commands, caught |-> caught], attempted)
       ELSE /\ pending_rules' = pending_rules
            /\ Returns(Unhandled,
                       [commands |-> commands,
                        caught |-> caught \cup {"_handle_parent_focus_event"}],
                       attempted)
    /\ UNCHANGED <<now, rules, relationships, parent_cwds, preserved_dimensions,
                   sweep, rules_list, call, i3, config, lock, pcs, shadow>>

\* a new-window event: _handle_new_window_event
NewWindowEvent(event, conn) ==
    LET workspace == _get_current_workspace_name(conn)
        container == event.container
        pending_rule_info == get_pending_rule(pending_rules, workspace, now)
        rule == CheckResult(pending_rule_info, container)
        done == _execute_child_actions(conn, rule, parent_cwds,
                                       preserved_dimensions, now)
    IN
    /\ phase = "idle"
    /\ SmartEnabled(config)
    /\ Prefix(conn, event).result = NoneRec
    /\ event.change = "new"
    /\ i3' = conn
    /\ call' = [op |-> "smart_switch_splitting", event |-> event,
                workspace |-> workspace,
                found |-> DictGet(pending_rules, workspace, NoneRec)]
    /\ pending_rules' = AfterCheck(pending_rules, workspace, container, now)
    /\ relationships' =
           CheckRelationships(relationships, pending_rule_info, container, now)
    /\ IF rule = NoneRec
       THEN /\ Returns(Unhandled, NoIo, <<>>)
            /\ UNCHANGED <<parent_cwds, preserved_dimensions>>
       ELSE /\ Returns(IF done.result.handled THEN done.result ELSE Unhandled,
                       done.acc.io, done.acc.attempted)
            /\ parent_cwds' = done.acc.parent_cwds
            /\ preserved_dimensions' = done.acc.preserved_dimensions
    /\ UNCHANGED <<now, rules, sweep, rules_list, config, lock, pcs, shadow>>

\* a walk that ends with the first matching rule, handled or not
ImmediateLoop_StopsAtFirst(conn, container, rule_dicts, i, acc, t) ==
    LET k == FirstMatch(container, rule_dicts, i) IN
    IF k = 0 THEN [acc |-> acc, result |-> Unhandled]
    ELSE LET done == execute_rule(conn, container, rule_dicts[k], acc, t)
         IN IF done.result.handled THEN done
            ELSE [acc |-> done.acc, result |-> Unhandled]

\* the loop of _handle_immediate_rule_matching from rule dictionary i on
RECURSIVE ImmediateLoop(_, _, _, _, _, _)
ImmediateLoop(conn, container, rule_dicts, i, acc, t) ==
    IF i > Len(rule_dicts) THEN [acc |-> acc, result |-> Unhandled]
    ELSE IF ~matches_rule(container, rule_dicts[i])
    THEN ImmediateLoop(conn, container, rule_dicts, i + 1,
                       IF _parse_rule(rule_dicts[i]).raised
                       THEN [acc EXCEPT !.io.caught = @ \cup {"matches_rule"}]
                       ELSE acc,
                       t)
    ELSE LET done == execute_rule(conn, container, rule_dicts[i],
                                  [acc EXCEPT !.actions_executed = <<>>,
                                              !.actions_failed = <<>>], t)
         IN IF done.result.handled THEN done
            ELSE ImmediateLoop(conn, container, rule_dicts, i + 1, done.acc, t)

\* an event of the WINDOW kind that is neither focus nor new:
\* _handle_immediate_rule_matching
OtherWindowEvent(event, conn) ==
    LET done == ImmediateLoop(conn, event.container, config.rules, 1,
                              Acc(NoIo, <<>>, <<>>, <<>>, parent_cwds,
                                  preserved_dimensions), now)
    IN
    /\ phase = "idle"
    /\ SmartEnabled(config)
    /\ Prefix(conn, event).result = NoneRec
    /\ event.change \notin {"focus", "new"}
    /\ i3' = conn
    /\ call' = [op |-> "smart_switch_splitting", event |-> event]
    /\ Returns(done.result, done.acc.io, done.acc.attempted)
    /\ parent_cwds' = done.acc.parent_cwds
    /\ preserved_dimensions' = done.acc.preserved_dimensions
    /\ UNCHANGED <<now, rules, relationships, pending_rules, sweep, rules_list,
                   config, lock, pcs, shadow>>

\* time passes between two events
EventTick ==
    /\ phase = "idle"
    /\ Tick

\* a rule with a set_mode, a place and a size_ratio action
EditorRule ==
    Dict(<< <<"name", Str("editor_terminal")>>,
            <<"parent", Dict(<< <<"app_id", List(<<Str("kitty")>>)>>,
                                <<"title_pattern", List(<<Str("*vim")>>)>> >>)>>,
            <<"child", Dict(<< <<"app_id", List(<<Str("kitty")>>)>> >>)>>,
            <<"actions", List(<<Str("set_mode: v after"),
                                Dict(<< <<"place", Str("below")>> >>),
                                Dict(<< <<"size_ratio", Float(333)>> >>)>>)>> >>)

ConfigWith(rule_dicts, rule_timeout) ==
    [rules |-> rule_dicts, rule_timeout |-> rule_timeout]

\* configurations: one whose first rule does not parse, one whose
\* rule_timeout is not a number, one with an empty list of rules, and one
\* with no rules key
EventConfigs ==
    {ConfigWith(<<BadParent, EditorRule>>, IntVal(MaxTtl)),
     ConfigWith(<<EditorRule>>, Str("15")),
     ConfigWith(<<>>, IntVal(MaxTtl)),
     [rule_timeout |-> IntVal(MaxTtl)]}

EventContainers ==
    {Container("p1", "kitty", "Nvim"), Container("c3", "firefox", None)}

Events ==
    {WindowEvent(change, container) :
        change \in {"focus", "new", "title"}, container \in EventContainers}
    \cup {WindowEvent("close", NoneRec), ModeEvent}

\* the window manager during one event: it accepts every command, raises on
\* the first, rejects all but the first, has no focused workspace, or raises
\* when asked for its workspaces
EventConnections ==
    {Connection(<<"ok", "ok">>, "1"), Connection(<<"raises", "ok">>, "1"),
     Connection(<<"ok", "rejected">>, "1"), Connection(<<"ok", "ok">>, None),
     Connection(<<"ok", "ok">>, "raises")}

EventInit ==
    /\ now = 0
    /\ config \in EventConfigs
    /\ rules_list = DictGet(config, "rules", <<>>)
    /\ rules = load_rules(DictGet(config, "rules", <<>>)).rules
    /\ relationships = <<>>
    /\ pending_rules = <<>>
    /\ parent_cwds = <<>>
    /\ preserved_dimensions = <<>>
    /\ sweep = IdleSweep
    /\ call = NoCall
    /\ ret = NoneRec
    /\ i3 = IdleConnection
    /\ commands = <<>>
    /\ attempted = <<>>
    /\ caught = {}
    /\ geometry = 0
    /\ phase = "idle"
    /\ lock = None
    /\ pcs = <<>>
    /\ shadow = NoneRec

EventNext ==
    \/ EventTick
    \/ \E event \in Events, conn \in EventConnections : PlainEvent(event, conn)
    \/ \E event \in Events, conn \in EventConnections : ParentFocusEvent(event, conn)
    \/ ParentFocusStore
    \/ \E event \in Events, conn \in EventConnections : NewWindowEvent(event, conn)
    \/ \E event \in Events, conn \in EventConnections : OtherWindowEvent(event, conn)

EventSpec == EventInit /\ [][EventNext]_vars

----------------------------------------------------------------------------
(* core/state.py under threads.  The state manager is one module-level     *)
(* object behind one threading.Lock, and it is called from the handlers of *)
(* main.py, from the layout manager and from whoever runs                  *)
(* cleanup_expired_state.  Each thread runs the steps of one caller once,  *)
(* on one workspace; "with self._lock" is an acquire that waits for the    *)
(* lock to be free, the body, and a release.  The body of get_pending_rule *)
(* is taken in two steps, the test of the entry and the delete.            *)

ThreadWorkspace == "1"

\* the steps of a caller, in order.  A command is an i3.command call, a
\* get_tree an i3.get_tree call.
Program_CommandUnderLock(op) ==
    CASE op = "_handle_parent_focus_event" ->
           <<"get_tree", "acquire", "command", "store", "release">>
      [] op = "_handle_new_window_event" ->
           <<"get_tree", "acquire", "check", "delete", "release",
             "acquire", "relate", "release", "command">>
      [] op = "execute_neovim_terminal_placement" ->
           <<"command", "command", "get_tree", "acquire", "store", "release">>
      [] op = "cleanup_expired_state" ->
           <<"read_clock", "acquire", "purge", "release">>

\* _handle_parent_focus_event: the workspace lookup of handle_smart_rules,
\* _pre_execute_mode_actions, then store_pending_rule.
\* _handle_new_window_event: the lookup, get_pending_rule and
\* store_relationship inside check_child_against_pending_rules, then the
\* child actions.
\* execute_neovim_terminal_placement: place_window, the mark command, the
\* lookup, then store_pending_rule.
\* cleanup_expired_state: time.time() is read before the lock is taken.
Program(op) ==
    CASE op = "_handle_parent_focus_event" ->
           <<"get_tree", "command", "acquire", "store", "release">>
      [] op = "_handle_new_window_event" ->
           <<"get_tree", "acquire", "check", "delete", "release",
             "acquire", "relate", "release", "command">>
      [] op = "execute_neovim_terminal_placement" ->
           <<"command", "command", "get_tree", "acquire", "store", "release">>
      [] op = "cleanup_expired_state" ->
           <<"read_clock", "acquire", "purge", "release">>

Threads == {"_handle_parent_focus_event", "_handle_new_window_event",
            "execute_neovim_terminal_placement", "cleanup_expired_state"}

\* a lock that lets a second thread in
Free_Always(holder) == TRUE

\* threading.Lock: acquire returns when no thread holds the lock
Free(holder) == holder = None

\* a thread before its first step: where it is in its program, the entry
\* get_pending_rule found and whether it passed the test, the clock
\* cleanup_expired_state read, and the time of its store
NewThread ==
    [at |-> 1, rule_info |-> NoneRec, live |-> FALSE, current_time |-> 0,
     stored_at |-> 0]

\* the step a thread is at, "done" after its last
At(t) ==
    IF pcs[t].at > Len(Program(t)) THEN "done" ELSE Program(t)[pcs[t].at]

Advance(t) == [pcs[t] EXCEPT !.at = @ + 1]

\* the rule and the expires_in each caller stores
StoredRule(t) ==
    IF t = "execute_neovim_terminal_placement"
    THEN [name |-> "neovim_terminal"]
    ELSE rules[1]

\* the window of the parent, and the new window
ThreadParent == Container("p1", "kitty", "Nvim")
ThreadChild == Container("c2", "kitty", "sh")

\* a thread calls the window manager: i3.command or i3.get_tree.  What the
\* window manager does with the call is no part of the state of the store.
WmCall(t) ==
    /\ At(t) \in {"command", "get_tree"}
    /\ pcs' = [pcs EXCEPT ![t] = Advance(t)]
    /\ call' = [op |-> t, step |-> At(t)]
    /\ UNCHANGED <<now, rules, StoreVars, sweep, ret, rules_list, i3, commands,
                   attempted, caught, geometry, phase, config, lock, shadow>>

\* "with self._lock:" is entered
Acquire(t) ==
    /\ At(t) = "acquire"
    /\ Free(lock)
    /\ lock' = t
    /\ pcs' = [pcs EXCEPT ![t] = Advance(t)]
    /\ call' = [op |-> t, step |-> "acquire"]
    /\ UNCHANGED <<now, rules, StoreVars, sweep, ret, rules_list, i3, commands,
                   attempted, caught, geometry, phase, config, shadow>>

\* "with self._lock:" is left
Release(t) ==
    /\ At(t) = "release"
    /\ lock' = None
    /\ pcs' = [pcs EXCEPT ![t] = Advance(t)]
    /\ call' = [op |-> t, step |-> "release"]
    /\ UNCHANGED <<now, rules, StoreVars, sweep, ret, rules_list, i3, commands,
                   attempted, caught, geometry, phase, config, shadow>>

\* the body of store_pending_rule
ThreadStore(t) ==
    /\ At(t) = "store"
    /\ pending_rules' =
           store_pending_rule(pending_rules, ThreadWorkspace, StoredRule(t),
                              ThreadParent.id, detect_app_context(ThreadParent),
                              now, MaxTtl)
    /\ pcs' = [pcs EXCEPT ![t] = [Advance(t) EXCEPT !.stored_at = now]]
    /\ call' = [op |-> t, step |-> "store"]
    /\ UNCHANGED <<now, rules, relationships, parent_cwds, preserved_dimensions,
                   sweep, ret, rules_list, i3, commands, attempted, caught,
                   geometry, phase, config, lock, shadow>>

\* get_pending_rule: "rule_info = self._pending_rules.get(workspace)" and the
\* test "rule_info and rule_info['expires_at'] > time.time()"
ThreadCheck(t) ==
    LET rule_info == DictGet(pending_rules, ThreadWorkspace, NoneRec) IN
    /\ At(t) = "check"
    /\ pcs' = [pcs EXCEPT ![t] = [Advance(t) EXCEPT !.rule_info = rule_info,
                                                    !.live = IsLive(rule_info, now)]]
    /\ call' = [op |-> t, step |-> "check"]
    /\ UNCHANGED <<now, rules, StoreVars, sweep, ret, rules_list, i3, commands,
                   attempted, caught, geometry, phase, config, lock, shadow>>

\* get_pending_rule: "return rule_info", or "del self._pending_rules[workspace]"
\* and "return None"
ThreadDelete(t) ==
    /\ At(t) = "delete"
    /\ pending_rules' =
           IF ~pcs[t].live /\ pcs[t].rule_info # NoneRec
           THEN DictDel(pending_rules, ThreadWorkspace)
           ELSE pending_rules
    /\ ret' = IF pcs[t].live THEN pcs[t].rule_info ELSE NoneRec
    /\ pcs' = [pcs EXCEPT ![t] = Advance(t)]
    /\ call' = [op |-> t, step |-> "delete"]
    /\ UNCHANGED <<now, rules, relationships, parent_cwds, preserved_dimensions,
                   sweep, rules_list, i3, commands, attempted, caught, geometry,
                   phase, config, lock, shadow>>

\* the body of store_relationship, for the rule get_pending_rule returned
ThreadRelate(t) ==
    LET info == IF pcs[t].live THEN pcs[t].rule_info ELSE NoneRec IN
    /\ At(t) = "relate"
    /\ relationships' =
           IF info # NoneRec /\ info.rule.name # "neovim_terminal"
           THEN CheckRelationships(relationships, info, ThreadChild, now)
           ELSE relationships
    /\ pcs' = [pcs EXCEPT ![t] = Advance(t)]
    /\ call' = [op |-> t, step |-> "relate"]
    /\ UNCHANGED <<now, rules, pending_rules, parent_cwds, preserved_dimensions,
                   sweep, ret, rules_list, i3, commands, attempted, caught,
                   geometry, phase, config, lock, shadow>>

\* cleanup_expired_state: "current_time = time.time()"
ThreadReadClock(t) ==
    /\ At(t) = "read_clock"
    /\ pcs' = [pcs EXCEPT ![t] = [Advance(t) EXCEPT !.current_time = now]]
    /\ call' = [op |-> t, step |-> "read_clock"]
    /\ UNCHANGED <<now, rules, StoreVars, sweep, ret, rules_list, i3, commands,
                   attempted, caught, geometry, phase, config, lock, shadow>>

\* cleanup_expired_state: the three purges
ThreadPurge(t) ==
    /\ At(t) = "purge"
    /\ pending_rules' = Cleaned(pending_rules, pcs[t].current_time)
    /\ parent_cwds' = Cleaned(parent_cwds, pcs[t].current_time)
    /\ preserved_dimensions' = Cleaned(preserved_dimensions, pcs[t].current_time)
    /\ relationships' = CleanedRelationships(relationships, pcs[t].current_time)
    /\ pcs' = [pcs EXCEPT ![t] = Advance(t)]
    /\ call' = [op |-> t, step |-> "purge"]
    /\ UNCHANGED <<now, rules, sweep, ret, rules_list, i3, commands, attempted,
                   caught, geometry, phase, config, lock, shadow>>

\* time passes
ThreadTick ==
    /\ now < MaxTime
    /\ now' = now + 1
    /\ UNCHANGED <<rules, StoreVars, sweep, call, ret, rules_list, exec_vars>>

\* the pending rule of an earlier focus event, stored at time 0
EarlierPending ==
    store_pending_rule(<<>>, ThreadWorkspace, _parse_rule(EditorRule).value,
                       ThreadParent.id, detect_app_context(ThreadParent), 0, MaxTtl)

ThreadInit ==
    /\ now = 0
    /\ rules_list = <<EditorRule>>
    /\ rules = load_rules(rules_list).rules
    /\ relationships = <<>>
    /\ pending_rules \in {<<>>, EarlierPending}
    /\ parent_cwds = <<>>
    /\ preserved_dimensions = <<>>
    /\ sweep = IdleSweep
    /\ call = NoCall
    /\ ret = NoneRec
    /\ i3 = IdleConnection
    /\ commands = <<>>
    /\ attempted = <<>>
    /\ caught = {}
    /\ geometry = 0
    /\ phase = "idle"
    /\ config = NoneRec
    /\ lock = None
    /\ pcs = [t \in Threads |-> NewThread]
    /\ shadow = NoneRec

ThreadNext ==
    \/ ThreadTick
    \/ \E t \in Threads : WmCall(t)
    \/ \E t \in Threads : Acquire(t)
    \/ \E t \in Threads : Release(t)
    \/ \E t \in Threads : ThreadStore(t)
    \/ \E t \in Threads : ThreadCheck(t)
    \/ \E t \in Threads : ThreadDelete(t)
    \/ \E t \in Threads : ThreadRelate(t)
    \/ \E t \in Threads : ThreadReadClock(t)
    \/ \E t \in Threads : ThreadPurge(t)

ThreadSpec == ThreadInit /\ [][ThreadNext]_vars

----------------------------------------------------------------------------
(* The state manager with and without cleanup_expired_state.  Every call   *)
(* is made on the stores of the program and, with the same arguments at    *)
(* the same time, on shadow, a second set of stores that is never cleaned. *)
(* The cleanup runs on the stores of the program only, at any point.       *)

\* the variables of the handlers of main.py and of their threads
handler_vars == <<i3, commands, attempted, caught, geometry, phase, config,
                  lock, pcs>>

Stores(r, p, c, d) ==
    [relationships |-> r, pending_rules |-> p, parent_cwds |-> c,
     preserved_dimensions |-> d]

SweepParent == Container("p1", "kitty", "Nvim")
SweepChild == Container("c2", "kitty", "sh")

\* the stores a call leaves and what it returns, made at time t on the
\* stores st
Apply(st, op, t) ==
    CASE op.op = "store_pending_rule" ->
           [stores |-> [st EXCEPT !.pending_rules =
                           store_pending_rule(@, StoreWorkspace, rules[1],
                                              SweepParent.id,
                                              detect_app_context(SweepParent),
                                              t, op.expires_in)],
            ret |-> NoneRec]
      [] op.op = "get_pending_rule" ->
           [stores |-> [st EXCEPT !.pending_rules = AfterGet(@, StoreWorkspace, t)],
            ret |-> get_pending_rule(st.pending_rules, StoreWorkspace, t)]
      [] op.op = "check_child_against_pending_rules" ->
           LET info == get_pending_rule(st.pending_rules, StoreWorkspace, t) IN
           [stores |-> [st EXCEPT
                          !.pending_rules = AfterCheck(@, StoreWorkspace, SweepChild, t),
                          !.relationships = CheckRelationships(@, info, SweepChild, t)],
            ret |-> CheckResult(info, SweepChild)]
      [] op.op = "get_relationship" ->
           [stores |-> st, ret |-> get_relationship(st.relationships, SweepChild.id)]
      [] op.op = "store_parent_cwd" ->
           [stores |-> [st EXCEPT !.parent_cwds =
                           store_parent_cwd(@, StoreWorkspace, SweepParent.id,
                                            "/home/u", t, op.expires_in)],
            ret |-> NoneRec]
      [] op.op = "get_parent_cwd" ->
           [stores |-> [st EXCEPT !.parent_cwds = AfterGet(@, StoreWorkspace, t)],
            ret |-> get_parent_cwd(st.parent_cwds, StoreWorkspace, t)]
      [] op.op = "store_preserved_dimensions" ->
           [stores |-> [st EXCEPT !.preserved_dimensions =
                           store_preserved_dimensions(@, StoreWorkspace,
                                                      SweepParent.id, "width=800",
                                                      t, op.expires_in)],
            ret |-> NoneRec]
      [] op.op = "get_preserved_dimensions" ->
           [stores |-> [st EXCEPT !.preserved_dimensions =
                           AfterGet(@, StoreWorkspace, t)],
            ret |-> get_preserved_dimensions(st.preserved_dimensions,
                                             StoreWorkspace, t)]

\* the call op made on the stores of the program and on shadow
Twin(op) ==
    LET real == Apply(Stores(relationships, pending_rules, parent_cwds,
                             preserved_dimensions), op, now)
        twin == Apply(shadow.stores, op, now)
    IN
    /\ relationships' = real.stores.relationships
    /\ pending_rules' = real.stores.pending_rules
    /\ parent_cwds' = real.stores.parent_cwds
    /\ preserved_dimensions' = real.stores.preserved_dimensions
    /\ ret' = real.ret
    /\ shadow' = [stores |-> twin.stores, ret |-> twin.ret]
    /\ UNCHANGED <<now, rules, sweep, rules_list, handler_vars>>

\* StateManager.store_pending_rule(workspace, rule, parent_id, context, expires_in)
TwinStorePendingRule(expires_in) ==
    LET op == [op |-> "store_pending_rule", expires_in |-> expires_in] IN
    /\ call' = op
    /\ Twin(op)

\* StateManager.get_pending_rule(workspace)
TwinGetPendingRule ==
    /\ call' = [op |-> "get_pending_rule"]
    /\ Twin([op |-> "get_pending_rule"])

\* RuleEngine.check_child_against_pending_rules(child_container, workspace)
TwinCheckChild ==
    /\ call' = [op |-> "check_child_against_pending_rules"]
    /\ Twin([op |-> "check_child_against_pending_rules"])

\* StateManager.get_relationship(child_id)
TwinGetRelationship ==
    /\ call' = [op |-> "get_relationship"]
    /\ Twin([op |-> "get_relationship"])

\* StateManager.store_parent_cwd(workspace, parent_id, cwd, expires_in)
TwinStoreParentCwd(expires_in) ==
    LET op == [op |-> "store_parent_cwd", expires_in |-> expires_in] IN
    /\ call' = op
    /\ Twin(op)

\* StateManager.get_parent_cwd(workspace)
TwinGetParentCwd ==
    /\ call' = [op |-> "get_parent_cwd"]
    /\ Twin([op |-> "get_parent_cwd"])

\* StateManager.store_preserved_dimensions(workspace, container_id, dimensions, expires_in)
TwinStorePreservedDimensions(expires_in) ==
    LET op == [op |-> "store_preserved_dimensions", expires_in |-> expires_in] IN
    /\ call' = op
    /\ Twin(op)

\* StateManager.get_preserved_dimensions(workspace)
TwinGetPreservedDimensions ==
    /\ call' = [op |-> "get_preserved_dimensions"]
    /\ Twin([op |-> "get_preserved_dimensions"])

SweepInit ==
    /\ now = 0
    /\ rules_list = <<EditorRule>>
    /\ rules = load_rules(rules_list).rules
    /\ relationships = <<>>
    /\ pending_rules = <<>>
    /\ parent_cwds = <<>>
    /\ preserved_dimensions = <<>>
    /\ sweep = IdleSweep
    /\ call = NoCall
    /\ ret = NoneRec
    /\ i3 = IdleConnection
    /\ commands = <<>>
    /\ attempted = <<>>
    /\ caught = {}
    /\ geometry = 0
    /\ phase = "idle"
    /\ config = NoneRec
    /\ lock = None
    /\ pcs = <<>>
    /\ shadow = [stores |-> Stores(<<>>, <<>>, <<>>, <<>>), ret |-> NoneRec]

SweepNext ==
    \/ Tick
    \/ CleanupReadClock
    \/ CleanupSweep
    \/ \E expires_in \in Ttls : TwinStorePendingRule(expires_in)
    \/ TwinGetPendingRule
    \/ TwinCheckChild
    \/ TwinGetRelationship
    \/ \E expires_in \in Ttls : TwinStoreParentCwd(expires_in)
    \/ TwinGetParentCwd
    \/ \E expires_in \in Ttls : TwinStorePreservedDimensions(expires_in)
    \/ TwinGetPreservedDimensions

SweepSpec == SweepInit /\ [][SweepNext]_vars

----------------------------------------------------------------------------
(* config/schema.py *)

\* One message of a validator.  The f-strings of the source put a value, an
\* index and prefixes ("Rule 0: ", "parent: ", "action[1]: ") in the text;
\* here they are fields: the value in arg, the index in at, and the prefixes
\* in rule, part and action (-1 and None where the message has none).
Error(msg, arg, at) ==
    [msg |-> msg, arg |-> arg, at |-> at, rule |-> -1, part |-> None, action |-> -1]

\* what a validator returns: (len(errors) == 0, errors)
Validated(errors) == [valid |-> errors = <<>>, errors |-> errors]

\* an early "return False, [message]"
Rejected(msg) == [valid |-> FALSE, errors |-> <<Error(msg, None, -1)>>]

\* 'k in obj' of a tagged dict
HasKey(obj, k) == \E i \in 1..Len(obj.items) : obj.items[i][1] = k

\* isinstance(value, (int, float)); bool is a subclass of int
IsNumber(value) == value.type \in {"int", "float", "bool"}

\* a number in thousandths
Thousandths(value) ==
    CASE value.type = "float" -> value.val
      [] value.type = "int" -> value.val * 1000
      [] value.type = "bool" -> (IF value.val THEN 1000 ELSE 0)

\* a validate_size_ratio whose upper bound is exclusive
validate_size_ratio_OpenAbove(value) ==
    IF ~IsNumber(value) THEN Rejected("size_ratio value must be a number")
    ELSE Validated(IF 100 <= Thousandths(value) /\ Thousandths(value) < 900
                   THEN <<>>
                   ELSE <<Error("size_ratio must be between 0.1 and 0.9",
                                value, -1)>>)

validate_size_ratio(value) ==
    IF ~IsNumber(value) THEN Rejected("size_ratio value must be a number")
    ELSE Validated(IF 100 <= Thousandths(value) /\ Thousandths(value) <= 900
                   THEN <<>>
                   ELSE <<Error("size_ratio must be between 0.1 and 0.9",
                                value, -1)>>)

\* re.match(r'^[hv](\s+(after|before|end|beg))?$', value.strip())
validate_set_mode(value) ==
    IF value.type # "str" THEN Rejected("set_mode value must be a string")
    ELSE LET parts == Words(value.val) IN
         Validated(IF /\ Len(parts) \in {1, 2}
                      /\ parts[1] \in {"h", "v"}
                      /\ Len(parts) = 2 => parts[2] \in {"after", "before", "end", "beg"}
                   THEN <<>>
                   ELSE <<Error("invalid set_mode format", value.val, -1)>>)

validate_place(value) ==
    IF value.type # "str" THEN Rejected("place value must be a string")
    ELSE Validated(IF value.val \in {"below", "right", "above", "left"}
                   THEN <<>>
                   ELSE <<Error("invalid place direction", value.val, -1)>>)

validate_boolean_action(value, action_name) ==
    Validated(IF value.type = "bool" THEN <<>>
              ELSE <<Error("value must be a boolean", action_name, -1)>>)

validate_action(action) ==
    IF action.type # "dict" THEN Rejected("action must be a dictionary")
    ELSE IF Len(action.items) # 1
    THEN Rejected("action must contain exactly one key-value pair")
    ELSE LET action_type == action.items[1][1]
             action_value == action.items[1][2]
         IN CASE action_type = "set_mode" -> validate_set_mode(action_value)
              [] action_type = "place" -> validate_place(action_value)
              [] action_type = "size_ratio" -> validate_size_ratio(action_value)
              [] action_type \in {"inherit_cwd", "preserve_column"} ->
                   validate_boolean_action(action_value, action_type)
              [] OTHER -> Validated(<<Error("unknown action type", action_type, -1)>>)

\* the messages of a validator under the prefix of the validator that called it
WithAction(errors, i) == [k \in 1..Len(errors) |-> [errors[k] EXCEPT !.action = i]]
WithPart(errors, part) == [k \in 1..Len(errors) |-> [errors[k] EXCEPT !.part = part]]
WithRule(errors, i) == [k \in 1..Len(errors) |-> [errors[k] EXCEPT !.rule = i]]

\* the loop of validate_actions from the i-th action (enumerate counts from 0)
RECURSIVE ActionErrors(_, _)
ActionErrors(elts, i) ==
    IF i > Len(elts) THEN <<>>
    ELSE WithAction(validate_action(elts[i]).errors, i - 1) \o ActionErrors(elts, i + 1)

validate_actions(actions) ==
    IF actions.type # "list" THEN Rejected("actions must be a list")
    ELSE IF actions.elts = <<>> THEN Rejected("actions cannot be empty")
    ELSE Validated(ActionErrors(actions.elts, 1))

\* the messages for the items of a list that are not strings, from the i-th
RECURSIVE ItemErrors(_, _, _)
ItemErrors(field, elts, i) ==
    IF i > Len(elts) THEN <<>>
    ELSE (IF elts[i].type = "str" THEN <<>>
          ELSE <<Error("item must be a string", field, i - 1)>>)
         \o ItemErrors(field, elts, i + 1)

\* the messages for one field of parent
ParentFieldErrors(field, value) ==
    IF field \notin {"app_id", "class", "title_pattern"}
    THEN <<Error("Unknown parent field", field, -1)>>
    ELSE IF value.type # "list" THEN <<Error("field must be a list", field, -1)>>
    ELSE IF value.elts = <<>> THEN <<Error("field cannot be empty", field, -1)>>
    ELSE ItemErrors(field, value.elts, 1)

\* "for field in parent"
RECURSIVE ParentErrors(_)
ParentErrors(items) ==
    IF items = <<>> THEN <<>>
    ELSE ParentFieldErrors(items[1][1], items[1][2]) \o ParentErrors(Tail(items))

validate_parent(parent) ==
    IF parent.type # "dict" THEN Rejected("parent must be a dictionary")
    ELSE IF parent.items = <<>> THEN Rejected("parent cannot be empty")
    ELSE Validated(ParentErrors(parent.items))

\* "for field in child": the fields that are not app_id
RECURSIVE UnknownChildFields(_)
UnknownChildFields(items) ==
    IF items = <<>> THEN <<>>
    ELSE (IF items[1][1] = "app_id" THEN <<>>
          ELSE <<Error("Unknown child field", items[1][1], -1)>>)
         \o UnknownChildFields(Tail(items))

validate_child(child) ==
    IF child.type # "dict" THEN Rejected("child must be a dictionary")
    ELSE LET app_id == ObjGet(child, "app_id", NoneRec) IN
         Validated(
            (IF ~HasKey(child, "app_id")
             THEN <<Error("child missing required field", "app_id", -1)>>
             ELSE IF app_id.type # "list"
             THEN <<Error("field must be a list", "app_id", -1)>>
             ELSE IF app_id.elts = <<>>
             THEN <<Error("field cannot be empty", "app_id", -1)>>
             ELSE ItemErrors("app_id", app_id.elts, 1))
            \o UnknownChildFields(child.items))

\* the required fields of a rule that rule_dict lacks, in the order of
\* required_fields
RECURSIVE MissingFields(_, _)
MissingFields(rule_dict, fields) ==
    IF fields = <<>> THEN <<>>
    ELSE (IF HasKey(rule_dict, Head(fields)) THEN <<>>
          ELSE <<Error("Rule missing required field", Head(fields), -1)>>)
         \o MissingFields(rule_dict, Tail(fields))

\* str.strip() of the names of the model
Strip(s) == IF s = " " THEN "" ELSE s

validate_rule(rule_dict) ==
    IF rule_dict.type # "dict" THEN Rejected("Rule must be a dictionary")
    ELSE LET name == ObjGet(rule_dict, "name", NoneRec) IN
         Validated(
            MissingFields(rule_dict, <<"name", "parent", "child", "actions">>)
            \o (IF ~HasKey(rule_dict, "name") THEN <<>>
                ELSE IF name.type # "str"
                THEN <<Error("Rule 'name' must be a string", None, -1)>>
                ELSE IF Strip(name.val) = ""
                THEN <<Error("Rule 'name' cannot be empty", None, -1)>>
                ELSE <<>>)
            \o (IF ~HasKey(rule_dict, "parent") THEN <<>>
                ELSE WithPart(validate_parent(ObjGet(rule_dict, "parent", NoneRec)).errors,
                              "parent"))
            \o (IF ~HasKey(rule_dict, "child") THEN <<>>
                ELSE WithPart(validate_child(ObjGet(rule_dict, "child", NoneRec)).errors,
                              "child"))
            \o (IF ~HasKey(rule_dict, "actions") THEN <<>>
                ELSE WithPart(validate_actions(ObjGet(rule_dict, "actions", NoneRec)).errors,
                              "actions")))

\* "for field in settings": the fields that are not known
RECURSIVE UnknownSettingsFields(_)
UnknownSettingsFields(items) ==
    IF items = <<>> THEN <<>>
    ELSE (IF items[1][1] \in {"debug", "rule_timeout"} THEN <<>>
          ELSE <<Error("Unknown settings field", items[1][1], -1)>>)
         \o UnknownSettingsFields(Tail(items))

validate_settings(settings) ==
    IF settings.type # "dict" THEN Rejected("settings must be a dictionary")
    ELSE LET debug == ObjGet(settings, "debug", NoneRec)
             rule_timeout == ObjGet(settings, "rule_timeout", NoneRec)
         IN Validated(
            (IF HasKey(settings, "debug") /\ debug.type # "bool"
             THEN <<Error("settings.debug must be a boolean", None, -1)>>
             ELSE <<>>)
            \o (IF ~HasKey(settings, "rule_timeout") THEN <<>>
                ELSE IF ~IsNumber(rule_timeout)
                THEN <<Error("settings.rule_timeout must be a number", None, -1)>>
                ELSE IF Thousandths(rule_timeout) <= 0
                THEN <<Error("settings.rule_timeout must be greater than 0", None, -1)>>
                ELSE <<>>)
            \o UnknownSettingsFields(settings.items))

\* the loop of validate_config over config['rules'] from the i-th rule;
\* rule_names holds the names seen so far.  The names of the model are
\* strings; a name that cannot be hashed raises TypeError here.
RECURSIVE RuleErrors(_, _, _)
RuleErrors(elts, i, rule_names) ==
    IF i > Len(elts) THEN <<>>
    ELSE LET rule == elts[i]
             named == rule.type = "dict" /\ HasKey(rule, "name")
             rule_name == IF named THEN ObjGet(rule, "name", NoneRec) ELSE NoneRec
         IN WithRule(validate_rule(rule).errors, i - 1)
            \o (IF named /\ rule_name \in rule_names
                THEN <<Error("Duplicate rule name", StrOf(rule_name), -1)>>
                ELSE <<>>)
            \o RuleErrors(elts, i + 1,
                          IF named THEN rule_names \cup {rule_name} ELSE rule_names)

\* validate_config of a configuration that is a dict: the keys of the dict
\* are the fields of cfg, their values tagged
validate_config(cfg) ==
    Validated(
        (IF "rules" \notin DOMAIN cfg
         THEN <<Error("Configuration missing required field: rules", None, -1)>>
         ELSE IF cfg.rules.type # "list"
         THEN <<Error("Field 'rules' must be a list", None, -1)>>
         ELSE RuleErrors(cfg.rules.elts, 1, {}))
        \o (IF "settings" \in DOMAIN cfg
            THEN validate_settings(cfg.settings).errors
            ELSE <<>>))

----------------------------------------------------------------------------
(* config/parser.py and the loading of main() *)

\* A file of the file system: whether it exists, whether it parses as YAML,
\* and the dict that yaml.safe_load gives.
File(exists, parses, content) ==
    [exists |-> exists, parses |-> parses, content |-> content]

\* {}: what "yaml.safe_load(file) or {}" gives for an empty file, and what
\* load_config returns when it loads nothing
EmptyConfig == [k \in {} |-> NoneRec]

\* the default locations of load_config
\* (~/.config/smart-tiling/rules.yaml, ~/.config/smart-tiling/config.yaml,
\* /etc/smart-tiling/config.yaml) hold files 1..3 of a file system; a path
\* given on the command line names file 4, and None is path 0
NoPath == 0
GivenPath == 4
DefaultPaths == <<1, 2, 3>>

\* the loop over default_paths from the i-th: the first file that exists
\* and parses
RECURSIVE FirstDefault(_, _)
FirstDefault(fs, i) ==
    IF i > Len(DefaultPaths) THEN EmptyConfig
    ELSE LET file == fs[DefaultPaths[i]] IN
         IF file.exists /\ file.parses THEN file.content
         ELSE FirstDefault(fs, i + 1)

\* load_config(path): the configuration returned and the validation
\* messages printed to stderr.  A path that is not found or does not parse
\* gives {}; validation runs on a configuration that is not empty and
\* changes nothing of what is returned.
load_config(fs, path) ==
    LET loaded ==
            IF path # NoPath
            THEN (IF fs[path].exists /\ fs[path].parses THEN fs[path].content
                  ELSE EmptyConfig)
            ELSE FirstDefault(fs, 1)
    IN [config |-> loaded,
        printed |-> IF DOMAIN loaded # {} THEN validate_config(loaded).errors
                    ELSE <<>>]

\* bool(v) of a tagged value
TruthyValue(v) ==
    CASE v.type = "list" -> v.elts # <<>>
      [] v.type = "dict" -> v.items # <<>>
      [] v.type = "str" -> v.val # ""
      [] v.type = "bool" -> v.val
      [] v.type \in {"int", "float"} -> v.val # 0
      [] OTHER -> FALSE

\* config.get('rules') of main(), as a truth value
HasRules(cfg) == "rules" \in DOMAIN cfg /\ TruthyValue(cfg.rules)

\* rules that validate_rule accepts: two of the same name, and a third
TerminalRule ==
    Dict(<< <<"name", Str("editor")>>,
            <<"parent", Dict(<< <<"app_id", List(<<Str("kitty")>>)>> >>)>>,
            <<"child", Dict(<< <<"app_id", List(<<Str("kitty")>>)>> >>)>>,
            <<"actions", List(<<Dict(<< <<"place", Str("below")>> >>)>>)>> >>)

TerminalRuleAgain ==
    Dict(<< <<"name", Str("editor")>>,
            <<"parent", Dict(<< <<"app_id", List(<<Str("foot")>>)>> >>)>>,
            <<"child", Dict(<< <<"app_id", List(<<Str("foot")>>)>> >>)>>,
            <<"actions", List(<<Dict(<< <<"size_ratio", Float(333)>> >>)>>)>> >>)

BrowserRule ==
    Dict(<< <<"name", Str("browser")>>,
            <<"parent", Dict(<< <<"class", List(<<Str("Firefox")>>)>> >>)>>,
            <<"child", Dict(<< <<"app_id", List(<<Str("kitty")>>)>> >>)>>,
            <<"actions", List(<<Dict(<< <<"set_mode", Str("v after")>> >>)>>)>> >>)

ConfigRuleDicts == {TerminalRule, TerminalRuleAgain, BrowserRule, NoFields, BadParent}

MaxConfigRules == 2

\* what the files hold: lists of rules, a configuration with settings and
\* no rules, one whose rules is not a list, and nothing
FileContents ==
    {[rules |-> List(rule_dicts)] :
        rule_dicts \in UNION {[1..n -> ConfigRuleDicts] : n \in 0..MaxConfigRules}}
    \cup {[settings |-> Dict(<< <<"rule_timeout", IntVal(0)>> >>)],
          [rules |-> NoneRec],
          EmptyConfig}

Files ==
    {File(TRUE, TRUE, content) : content \in FileContents}
    \cup {File(FALSE, FALSE, EmptyConfig), File(TRUE, FALSE, EmptyConfig)}

\* file systems: a file at the given path and nothing at the default
\* locations, or a file at one default location behind one that is missing
\* or does not parse
FileSystems ==
    {<<File(FALSE, FALSE, EmptyConfig), File(FALSE, FALSE, EmptyConfig),
       File(FALSE, FALSE, EmptyConfig), file>> : file \in Files}
    \cup {<<first, file, File(FALSE, FALSE, EmptyConfig),
            File(FALSE, FALSE, EmptyConfig)>> :
            first \in {File(FALSE, FALSE, EmptyConfig), File(TRUE, FALSE, EmptyConfig)},
            file \in {File(TRUE, TRUE, [rules |-> List(<<TerminalRule>>)]),
                      File(TRUE, TRUE, [rules |-> List(<<TerminalRule, TerminalRule>>)])}}

\* values given to validate_size_ratio
RatioValues ==
    {Float(n) : n \in {0, 50, 99, 100, 101, 333, 500, 899, 900, 901, 1000}}
    \cup {IntVal(0), IntVal(1), Bool(TRUE), Bool(FALSE), Str("0.5"), NoneRec,
          List(<<>>)}

ConfigUnchanged ==
    UNCHANGED <<now, StoreVars, sweep, i3, commands, attempted, caught, geometry,
                phase, lock, pcs, shadow>>

\* config = load_config(args.config)
LoadConfig(fs, path) ==
    /\ call = NoCall
    /\ config' = load_config(fs, path).config
    /\ ret' = load_config(fs, path).printed
    /\ call' = [op |-> "load_config"]
    /\ UNCHANGED <<rules, rules_list>>
    /\ ConfigUnchanged

\* "if config.get('rules'): rule_engine.load_rules(config['rules'])"
MainLoadRules ==
    /\ call = [op |-> "load_config"]
    /\ HasRules(config)
    /\ rules_list' = config.rules.elts
    /\ rules' = load_rules(config.rules.elts).rules
    /\ ret' = IF load_rules(config.rules.elts).raised THEN Raise("AttributeError")
              ELSE Return(None)
    /\ call' = [op |-> "load_rules"]
    /\ UNCHANGED config
    /\ ConfigUnchanged

\* validate_size_ratio(value)
ValidateSizeRatio(value) ==
    /\ call' = [op |-> "validate_size_ratio", value |-> value]
    /\ ret' = validate_size_ratio(value)
    /\ UNCHANGED <<rules, rules_list, config>>
    /\ ConfigUnchanged

ConfigInit ==
    /\ now = 0
    /\ rules_list = <<>>
    /\ rules = <<>>
    /\ relationships = <<>>
    /\ pending_rules = <<>>
    /\ parent_cwds = <<>>
    /\ preserved_dimensions = <<>>
    /\ sweep = IdleSweep
    /\ call = NoCall
    /\ ret = NoneRec
    /\ ExecIdle

ConfigNext ==
    \/ \E fs \in FileSystems, path \in {NoPath, GivenPath} : LoadConfig(fs, path)
    \/ MainLoadRules
    \/ \E value \in RatioValues : ValidateSizeRatio(value)

ConfigSpec == ConfigInit /\ [][ConfigNext]_vars

----------------------------------------------------------------------------
(* The handlers of main.py on configurations that validate_config accepts, *)
(* with windows of three applications.                                     *)

\* a rule for kitty windows whose only action is a resize
ResizeRule ==
    Dict(<< <<"name", Str("resize")>>,
            <<"parent", Dict(<< <<"app_id", List(<<Str("kitty")>>)>> >>)>>,
            <<"child", Dict(<< <<"app_id", List(<<Str("kitty")>>)>> >>)>>,
            <<"actions", List(<<Dict(<< <<"size_ratio", Float(333)>> >>)>>)>> >>)

\* the settings of a configuration file
SettingsWith(rule_timeout) == Dict(<< <<"rule_timeout", rule_timeout>> >>)

\* configurations: the rules are held as the sequence of the list under
\* 'rules', the settings as the dict under 'settings'.  One has a
\* rule_timeout in its settings, one has none anywhere, one has a
\* rule_timeout key at the top level.
HandlerConfigs ==
    {[rules |-> <<TerminalRule, BrowserRule>>,
      settings |-> SettingsWith(IntVal(MaxTtl))],
     [rules |-> <<TerminalRule, ResizeRule>>],
     [rules |-> <<BrowserRule>>, rule_timeout |-> IntVal(MaxTtl)]}

\* an editor in kitty, a browser, and a window no rule is about
HandlerContainers ==
    {Container("p1", "kitty", "Nvim"), Window("b1", None, "Firefox", None),
     Container("c3", "foot", "sh")}

\* every window takes the focus; a kitty window and a foot window are
\* created; the title of the editor changes
HandlerEvents ==
    {WindowEvent("focus", container) : container \in HandlerContainers}
    \cup {WindowEvent("new", Container("c2", "kitty", "sh")),
          WindowEvent("new", Container("c3", "foot", "sh")),
          WindowEvent("title", Container("p1", "kitty", "Nvim")),
          WindowEvent("title", Window("b1", None, "Firefox", None)),
          ModeEvent}

\* the window manager during one event: it accepts every command, raises on
\* the first, rejects the first, rejects them all, or has no focused workspace
HandlerConnections ==
    {Connection(<<"ok", "ok">>, "1"), Connection(<<"raises", "ok">>, "1"),
     Connection(<<"rejected", "ok">>, "1"),
     Connection(<<"rejected", "rejected">>, "1"),
     Connection(<<"ok", "ok">>, None)}

HandlerInit ==
    /\ now = 0
    /\ config \in HandlerConfigs
    /\ rules_list = config.rules
    /\ rules = load_rules(config.rules).rules
    /\ relationships = <<>>
    /\ pending_rules = <<>>
    /\ parent_cwds = <<>>
    /\ preserved_dimensions = <<>>
    /\ sweep = IdleSweep
    /\ call = NoCall
    /\ ret = NoneRec
    /\ i3 = IdleConnection
    /\ commands = <<>>
    /\ attempted = <<>>
    /\ caught = {}
    /\ geometry = 0
    /\ phase = "idle"
    /\ lock = None
    /\ pcs = <<>>
    /\ shadow = NoneRec

HandlerNext ==
    \/ EventTick
    \/ \E event \in HandlerEvents, conn \in HandlerConnections : PlainEvent(event, conn)
    \/ \E event \in HandlerEvents, conn \in HandlerConnections :
          ParentFocusEvent(event, conn)
    \/ ParentFocusStore
    \/ \E event \in HandlerEvents, conn \in HandlerConnections :
          NewWindowEvent(event, conn)
    \/ \E event \in HandlerEvents, conn \in HandlerConnections :
          OtherWindowEvent(event, conn)

HandlerSpec == HandlerInit /\ [][HandlerNext]_vars

----------------------------------------------------------------------------
(* The pending match while the rule list is replaced: parent matches are   *)
(* stored on two workspaces, load_rules is called again, children arrive.  *)

\* the lists load_rules is called with
ReloadLists == {ConfigRules, <<TerminalRule, BrowserRule>>, <<BrowserRule>>}

ReloadParents ==
    {Container("p1", "kitty", "Nvim"), Window("b1", None, "Firefox", None)}

ReloadChildren == {Container("c2", "kitty", "sh"), Container("c3", "foot", "sh")}

\* rule_engine.load_rules(rules_list), called again on another list
ReloadRules(list) ==
    /\ list # rules_list
    /\ rules' = load_rules(list).rules
    /\ rules_list' = list
    /\ call' = [op |-> "load_rules"]
    /\ ret' = NoneRec
    /\ UNCHANGED <<now, StoreVars, sweep>>
    /\ UNCHANGED exec_vars

\* match_parent and store_pending_rule on the rule it returned; shadow keeps,
\* for each workspace, the arguments of the last store made on it
StoreMatch(workspace, parent_container, expires_in) ==
    LET rule == match_parent(rules, parent_container) IN
    /\ rule # NoneRec
    /\ pending_rules' =
           store_pending_rule(pending_rules, workspace, rule, parent_container.id,
                              detect_app_context(parent_container), now, expires_in)
    /\ shadow' = DictSet(shadow, workspace,
                         [rule |-> rule, parent_id |-> parent_container.id,
                          expires_at |-> now + expires_in])
    /\ call' = [op |-> "store_pending_rule", workspace |-> workspace, rule |-> rule,
                parent_container |-> parent_container, expires_in |-> expires_in,
                found |-> DictGet(pending_rules, workspace, NoneRec)]
    /\ ret' = NoneRec
    /\ UNCHANGED <<now, rules, relationships, parent_cwds, preserved_dimensions,
                   sweep, rules_list, i3, commands, attempted, caught, geometry,
                   phase, config, lock, pcs>>

ReloadInit ==
    /\ now = 0
    /\ rules_list \in ReloadLists
    /\ rules = load_rules(rules_list).rules
    /\ relationships = <<>>
    /\ pending_rules = <<>>
    /\ parent_cwds = <<>>
    /\ preserved_dimensions = <<>>
    /\ sweep = IdleSweep
    /\ call = NoCall
    /\ ret = NoneRec
    /\ i3 = IdleConnection
    /\ commands = <<>>
    /\ attempted = <<>>
    /\ caught = {}
    /\ geometry = 0
    /\ phase = "idle"
    /\ config = NoneRec
    /\ lock = None
    /\ pcs = <<>>
    /\ shadow = <<>>

ReloadNext ==
    \/ Tick
    \/ \E list \in ReloadLists : ReloadRules(list)
    \/ \E ws \in Workspaces, p \in ReloadParents, ttl \in Ttls : StoreMatch(ws, p, ttl)
    \/ \E c \in ReloadChildren, ws \in Workspaces : CheckChild(c, ws)

ReloadSpec == ReloadInit /\ [][ReloadNext]_vars

----------------------------------------------------------------------------
(* core/context.py and the matchers of core/rules.py as functions of a     *)
(* window and of criteria.                                                 *)

\* windows: with and without an app id, a class and a title, the title
\* empty in one
MatcherWindows ==
    {Window("w", app_id, window_class, name) :
        app_id \in {"kitty", "foot", None},
        window_class \in {"Firefox", None},
        name \in {"Nvim", "sh", "", None}}

AppIdLists == {<<>>, <<"kitty">>, <<"foot", "kitty">>}
ClassLists == {<<>>, <<"Firefox">>}
PatternLists == {<<>>, <<"*VIM*">>, <<"">>, <<"?h", "n*">>}

\* the rule of a configuration entry with these parent and child app ids
MatchRule(parent_app_id, child_app_id) ==
    _parse_rule(Dict(<< <<"name", Str("m")>>,
                        <<"parent", Dict(<< <<"app_id", List(parent_app_id)>> >>)>>,
                        <<"child", Dict(<< <<"app_id", List(child_app_id)>> >>)>>,
                        <<"actions", List(<<>>)>> >>)).value

MatchRules ==
    {MatchRule(parent_app_id, child_app_id) :
        parent_app_id \in {<<>>, <<Str("kitty")>>},
        child_app_id \in {<<>>, <<Str("kitty")>>, <<Str("foot"), Str("kitty")>>}}

\* a matcher reads its arguments and changes nothing
MatchUnchanged == UNCHANGED <<now, rules, StoreVars, sweep, rules_list, exec_vars>>

\* matches_app_context(container, app_id_list=, window_class_list=, title_patterns=)
MatchesAppContext(container, app_id_list, window_class_list, title_patterns) ==
    /\ call' = [op |-> "matches_app_context", container |-> container,
                app_id_list |-> app_id_list,
                window_class_list |-> window_class_list,
                title_patterns |-> title_patterns]
    /\ ret' = Bool(matches_app_context(container, app_id_list,
                                       window_class_list, title_patterns))
    /\ MatchUnchanged

\* RuleEngine.match_child(container, rule)
MatchChild(container, rule) ==
    /\ call' = [op |-> "match_child", container |-> container, rule |-> rule]
    /\ ret' = Bool(match_child(container, rule))
    /\ MatchUnchanged

\* RuleEngine._matches_parent_criteria(container, rule.parent)
MatchesParentCriteria(container, rule) ==
    /\ call' = [op |-> "_matches_parent_criteria", container |-> container,
                rule |-> rule]
    /\ ret' = Bool(_matches_parent_criteria(container, rule.parent))
    /\ MatchUnchanged

MatchInit ==
    /\ now = 0
    /\ rules_list = <<>>
    /\ rules = <<>>
    /\ relationships = <<>>
    /\ pending_rules = <<>>
    /\ parent_cwds = <<>>
    /\ preserved_dimensions = <<>>
    /\ sweep = IdleSweep
    /\ call = NoCall
    /\ ret = NoneRec
    /\ ExecIdle

MatchNext ==
    \/ \E container \in MatcherWindows, app_id_list \in AppIdLists,
          window_class_list \in ClassLists, title_patterns \in PatternLists :
          MatchesAppContext(container, app_id_list, window_class_list,
                            title_patterns)
    \/ \E container \in MatcherWindows, rule \in MatchRules :
          MatchChild(container, rule)
    \/ \E container \in MatcherWindows, rule \in MatchRules :
          MatchesParentCriteria(container, rule)

MatchSpec == MatchInit /\ [][MatchNext]_vars

----------------------------------------------------------------------------
(* Properties of loading and parent matching, checked under LoadSpec *)

\* rule i of the engine accepts the window the last call was made with
Accepts(i) == _matches_parent_criteria(call.container, rules[i].parent)

\* C1: match_parent returns the first rule, in load order, whose parent
\* criteria accept the window, and None exactly when no loaded rule accepts it.
C1_FirstMatchWins ==
    call.op = "match_parent" =>
        /\ ret = NoneRec <=> \A i \in 1..Len(rules) : ~Accepts(i)
        /\ ret # NoneRec =>
               \E i \in 1..Len(rules) :
                   /\ Accepts(i)
                   /\ ret = rules[i]
                   /\ \A j \in 1..(i - 1) : ~Accepts(j)

\* a window that a rule rejects and two later, different rules accept was
\* matched to the earlier of the two
C1_Witness ==
    /\ call.op = "match_parent"
    /\ \E h, i, j \in 1..Len(rules) :
          /\ h < i /\ i < j
          /\ ~Accepts(h) /\ Accepts(i) /\ Accepts(j)
          /\ rules[i] # rules[j]
          /\ ret = rules[i]

\* the entries of a list that _parse_rule turns into a rule, parsed, in order
RECURSIVE WellFormedRules(_)
WellFormedRules(list) ==
    IF list = <<>> THEN <<>>
    ELSE IF _parse_rule(Head(list)).raised THEN WellFormedRules(Tail(list))
    ELSE <<_parse_rule(Head(list)).value>> \o WellFormedRules(Tail(list))

\* C9: load_rules never fails wholesale: whatever malformed entries the list
\* holds, entries that are not dictionaries included, it returns without
\* raising and the well-formed rules around them are loaded in their order.
C9_LoadNeverFails ==
    call.op = "load_rules" =>
        /\ ~ret.raised
        /\ rules = WellFormedRules(rules_list)

RequiredFields == {"name", "parent", "child", "actions"}

\* a rule dictionary that has every required field and parses
IsComplete(rule_dict) ==
    /\ HasGet(rule_dict)
    /\ \A k \in RequiredFields : ObjGet(rule_dict, k, NoneRec) # NoneRec
    /\ ~_parse_rule(rule_dict).raised

\* C10: a rule dictionary that lacks required fields is skipped by
\* load_rules, so the number of loaded rules is the number of complete rule
\* dictionaries of the list.
C10_IncompleteSkipped ==
    (call.op = "load_rules" /\ ~ret.raised) =>
        Len(rules) = Cardinality({i \in 1..Len(rules_list) : IsComplete(rules_list[i])})

----------------------------------------------------------------------------
(* Properties of the two-phase resolution, checked under Spec.  call and   *)
(* ret describe a call made at the present instant, so now is the time of  *)
(* the call.                                                               *)

CheckOp == "check_child_against_pending_rules"

\* the child of the last call fails, or passes, the child criteria of a rule
ChildRejected(rule) ==
    /\ rule.child.app_id # <<>>
    /\ ~InList(call.child_container.app_id, rule.child.app_id)
ChildAccepted(rule) ==
    \/ rule.child.app_id = <<>>
    \/ InList(call.child_container.app_id, rule.child.app_id)

\* C2: a child resolution or a get_pending_rule made after the expiry time
\* of the workspace's pending match returns None, whatever the child and
\* although no sweep has removed the entry.
C2_ExpiredReadsNone ==
    (/\ call.op \in {CheckOp, "get_pending_rule"}
     /\ call.found # NoneRec
     /\ now > call.found.expires_at)
        => ret = NoneRec

\* a child that the pending rule accepts came after the expiry time, found
\* the entry still in the dict, and was not resolved
C2_Witness ==
    /\ call.op = CheckOp
    /\ call.found # NoneRec
    /\ now > call.found.expires_at
    /\ ChildAccepted(call.found.rule)
    /\ ret = NoneRec

\* the entry a store_pending_rule call is to leave
StoredBy(c, t) ==
    [rule |-> c.rule, parent_id |-> c.parent_container.id,
     context |-> detect_app_context(c.parent_container),
     expires_at |-> t + c.expires_in]

\* C4: a workspace's pending match is the one the most recent store wrote
\* for it: a store replaces rule, parent id, context and expiry together,
\* and nothing but a store on that workspace writes its entry.
C4_LastStoreWins ==
    [][/\ call'.op = "store_pending_rule" =>
            /\ call'.workspace \in DOMAIN pending_rules'
            /\ pending_rules'[call'.workspace] = StoredBy(call', now')
       /\ \A ws \in DOMAIN pending_rules' :
            (ws \notin DOMAIN pending_rules \/ pending_rules'[ws] # pending_rules[ws])
                => (call'.op = "store_pending_rule" /\ call'.workspace = ws)
      ]_vars

\* a store replaced a pending match that differed in rule, parent id,
\* context and expiry
C4_Witness ==
    /\ call.op = "store_pending_rule"
    /\ call.found # NoneRec
    /\ call.found.rule # call.rule
    /\ call.found.parent_id # call.parent_container.id
    /\ call.found.context # detect_app_context(call.parent_container)
    /\ call.found.expires_at # now + call.expires_in
    /\ pending_rules[call.workspace] = StoredBy(call, now)

\* C5: a check with a child that fails the child criteria of the workspace's
\* pending rule returns None and leaves the relationships and what every
\* workspace's get_pending_rule yields as they were; while the entry is live
\* the dict itself is untouched (an entry past its expiry time reads as
\* absent before the call and is dropped by the call's lazy delete).
C5_MissKeepsPending ==
    [][\A c \in ChildContainers, ws \in Workspaces :
          (/\ CheckChild(c, ws)
           /\ ws \in DOMAIN pending_rules
           /\ pending_rules[ws].rule.child.app_id # <<>>
           /\ ~InList(c.app_id, pending_rules[ws].rule.child.app_id))
              => /\ ret' = NoneRec
                 /\ relationships' = relationships
                 /\ \A w \in Workspaces :
                        get_pending_rule(pending_rules', w, now) =
                            get_pending_rule(pending_rules, w, now)
                 /\ pending_rules[ws].expires_at > now
                        => pending_rules' = pending_rules
      ]_vars

\* a child with an id failed the child criteria of a live pending rule, and
\* the entry is still there
C5_Witness ==
    /\ call.op = CheckOp
    /\ call.found # NoneRec
    /\ call.found.expires_at > now
    /\ ChildRejected(call.found.rule)
    /\ Truthy(call.child_container.id)
    /\ Truthy(call.found.parent_id)
    /\ ret = NoneRec
    /\ call.workspace \in DOMAIN pending_rules
    /\ pending_rules[call.workspace] = call.found

\* C6: a successful resolution leaves the pending match in place with its
\* expiry time, every matching child that comes before the expiry time is
\* resolved to its rule, and a live pending match stops being live only when
\* its expiry time is reached or a store on its workspace overwrites it.
C6_PendingOutlivesResolution ==
    [][\A ws \in Workspaces :
          /\ \A c \in ChildContainers :
                (/\ CheckChild(c, ws)
                 /\ ws \in DOMAIN pending_rules
                 /\ pending_rules[ws].expires_at > now
                 /\ \/ pending_rules[ws].rule.child.app_id = <<>>
                    \/ InList(c.app_id, pending_rules[ws].rule.child.app_id))
                    => /\ ret' = pending_rules[ws].rule
                       /\ ws \in DOMAIN pending_rules'
                       /\ pending_rules'[ws] = pending_rules[ws]
          /\ (/\ ws \in DOMAIN pending_rules
              /\ pending_rules[ws].expires_at > now
              /\ \/ ws \notin DOMAIN pending_rules'
                 \/ pending_rules'[ws].expires_at <= now')
                 => \/ now' >= pending_rules[ws].expires_at
                    \/ call'.op = "store_pending_rule" /\ call'.workspace = ws
      ]_vars

\* a child was resolved against a pending match that had resolved another
\* child before and is still live
C6_Witness ==
    /\ call.op = CheckOp
    /\ ret # NoneRec
    /\ ret = call.found.rule
    /\ call.child_container.id # "c2"
    /\ "c2" \in DOMAIN relationships
    /\ relationships["c2"].rule_name = ret.name
    /\ relationships["c2"].parent_id = call.found.parent_id
    /\ relationships["c2"].created_at = now
    /\ call.workspace \in DOMAIN pending_rules
    /\ pending_rules[call.workspace] = call.found
    /\ pending_rules[call.workspace].expires_at > now
    /\ DOMAIN pending_rules = {call.workspace}

\* the relationship of the child of the last call is that of its resolution
Persisted ==
    LET relationship == get_relationship(relationships, call.child_container.id) IN
    /\ relationship # NoneRec
    /\ relationship.parent_id = call.found.parent_id
    /\ relationship.rule_name = ret.name

\* C7, as claimed: whenever a check returns a rule for a child, whatever the
\* child id and the parent id, a relationship is persisted for that child
\* with the pending match's parent id and the returned rule's name.
C7_AlwaysPersisted ==
    (call.op = CheckOp /\ ret # NoneRec) => Persisted

\* C7, amended: whenever a check returns a rule for a child whose id is
\* truthy while the pending match's parent id is truthy, a relationship is
\* persisted for that child with that parent id and the returned rule's name.
C7_PersistedWhenIdsTruthy ==
    (/\ call.op = CheckOp
     /\ ret # NoneRec
     /\ Truthy(call.child_container.id)
     /\ Truthy(call.found.parent_id))
        => Persisted

\* a child with an id was resolved against a parent with an id
C7_Witness ==
    /\ call.op = CheckOp
    /\ ret # NoneRec
    /\ Truthy(call.child_container.id)
    /\ Truthy(call.found.parent_id)
    /\ Persisted

\* C8: a stored relationship is never removed: whatever step follows (time
\* passing, a pending rule expiring, a get deleting it, a sweep),
\* get_relationship still returns an entry for the child.
C8_RelationshipsKept ==
    [][\A id \in DOMAIN relationships :
          get_relationship(relationships', id) # NoneRec]_vars

\* a sweep ran after the relationship was made and after the pending rules
\* had expired, and the relationship is still there
C8_Witness ==
    /\ call.op = "cleanup_expired_state"
    /\ call.current_time > 0
    /\ pending_rules = <<>>
    /\ \E id \in DOMAIN relationships :
          relationships[id].created_at < call.current_time

\* C26: a store on a workspace that has a pending match already, live or
\* expired, sets the expiry to the time of the store plus its expires_in,
\* whatever the expiry of the match it replaces; and a child that matches
\* and arrives before that expiry is resolved to the rule stored.
C26_StoreResetsTimer ==
    [][/\ (call'.op = "store_pending_rule" /\ call'.found # NoneRec) =>
             pending_rules'[call'.workspace].expires_at = now + call'.expires_in
       /\ \A c \in ChildContainers, ws \in Workspaces :
             (/\ CheckChild(c, ws)
              /\ ws \in DOMAIN pending_rules
              /\ pending_rules[ws].expires_at > now
              /\ match_child(c, pending_rules[ws].rule))
                 => ret' = pending_rules[ws].rule
      ]_vars

\* a second match was stored when the first had expired; it is live until
\* its own expiry
C26_Witness ==
    /\ call.op = "store_pending_rule"
    /\ call.found # NoneRec
    /\ call.found.expires_at <= now
    /\ call.expires_in > 0
    /\ pending_rules[call.workspace].expires_at = now + call.expires_in
    /\ get_pending_rule(pending_rules, call.workspace, now) # NoneRec

\* C32: a store, a read or a child check on one workspace, the passing of
\* time and the sweep leave the pending match of every other workspace as it
\* is, so that get_pending_rule returns for it what it returned before; and
\* a child check on a workspace resolves against the pending match of that
\* workspace alone: with none there, or an expired one, it returns nothing,
\* whatever the other workspaces hold.
C32_WorkspacesIsolated ==
    [][\A a \in Workspaces : \A b \in Workspaces \ {a} :
          /\ (/\ call'.op \in {"store_pending_rule", "get_pending_rule",
                               "check_child_against_pending_rules"}
              /\ call'.workspace = a) =>
                 /\ DictGet(pending_rules', b, NoneRec) = DictGet(pending_rules, b, NoneRec)
                 /\ get_pending_rule(pending_rules', b, now')
                       = get_pending_rule(pending_rules, b, now)
          /\ now' # now =>
                 DictGet(pending_rules', b, NoneRec) = DictGet(pending_rules, b, NoneRec)
          /\ (/\ call'.op = "check_child_against_pending_rules"
              /\ call'.workspace = b
              /\ ret' # NoneRec) =>
                 /\ b \in DOMAIN pending_rules
                 /\ pending_rules[b].expires_at > now
                 /\ ret' = pending_rules[b].rule
      ]_vars

\* a kitty window created on workspace 2 was not resolved while workspace 1
\* held a live pending match that accepts kitty windows
C32_Witness ==
    /\ call.op = "check_child_against_pending_rules"
    /\ call.workspace = "2"
    /\ call.child_container.app_id = "kitty"
    /\ ret = NoneRec
    /\ "1" \in DOMAIN pending_rules
    /\ pending_rules["1"].expires_at > now
    /\ "kitty" = pending_rules["1"].rule.child.app_id[1]
    /\ "2" \notin DOMAIN pending_rules

----------------------------------------------------------------------------
(* Properties of the expiring stores, checked under StoreSpec *)

\* what a get is to return at time t, given the entry the dict held and the
\* payload of that entry; none is the None of the payload's kind
Expected(found, payload, none, t) ==
    IF found # NoneRec /\ t < found.expires_at THEN payload ELSE none

\* the last call was a get and returned what the entry it found calls for
ReadsByExpiry ==
    /\ call.op = "get_pending_rule" =>
          ret = Expected(call.found, call.found, NoneRec, now)
    /\ call.op = "get_parent_cwd" =>
          ret = Expected(call.found, call.found.cwd, None, now)
    /\ call.op = "get_preserved_dimensions" =>
          ret = Expected(call.found, call.found.dimensions, None, now)

\* a step removes from dict d, leaving e, only entries that have expired
DeletesOnlyExpired(d, e, t) ==
    \A ws \in DOMAIN d : ws \notin DOMAIN e => d[ws].expires_at <= t

\* C3: in each of the three stores a get at time now returns the stored
\* payload if now < expires_at and None if now >= expires_at, the instant
\* now = expires_at included, and whether or not the entry has been deleted:
\* an entry is deleted only once it has expired, and a get that finds none
\* returns None.
C3_LazyExpiry ==
    [][/\ ReadsByExpiry'
       /\ DeletesOnlyExpired(pending_rules, pending_rules', now)
       /\ DeletesOnlyExpired(parent_cwds, parent_cwds', now)
       /\ DeletesOnlyExpired(preserved_dimensions, preserved_dimensions', now)
      ]_vars

\* at the very instant a stored working directory expires a get found it in
\* the dict, returned None and deleted it, while the pending rule stored for
\* the workspace is still live
C3_Witness ==
    /\ call.op = "get_parent_cwd"
    /\ call.found # NoneRec
    /\ call.found.expires_at = now
    /\ now > 0
    /\ ret = None
    /\ StoreWorkspace \notin DOMAIN parent_cwds
    /\ StoreWorkspace \in DOMAIN pending_rules
    /\ pending_rules[StoreWorkspace].expires_at > now

----------------------------------------------------------------------------
(* Properties of the execution of a rule's actions, checked under ExecSpec *)

ChildOp == "_execute_child_actions"
PreOp == "_pre_execute_mode_actions"

\* the number of entries of a list that equal x
Count(list, x) == Cardinality({k \in 1..Len(list) : list[k] = x})

\* the positions of the set_mode actions of a rule, and of the others
ModePositions(rule) ==
    {i \in 1..Len(rule.actions) : rule.actions[i].action = "set_mode"}
OtherPositions(rule) == (1..Len(rule.actions)) \ ModePositions(rule)

\* list holds exactly the members of the set of positions, in increasing order
InOrder(list, positions) ==
    /\ Len(list) = Cardinality(positions)
    /\ \A k \in 1..Len(list) : list[k] \in positions
    /\ \A k \in 1..(Len(list) - 1) : list[k] < list[k + 1]

\* C11: the report of a child phase and of execute_rule is handled exactly
\* when its list of executed actions is not empty, failed actions or not.
C11_HandledIffExecuted ==
    call.op \in {ChildOp, "execute_rule"} =>
        (ret.handled <=> DictGet(ret, "actions_executed", <<>>) # <<>>)

\* a child phase in which an action failed and a later one succeeded was
\* reported handled
C11_Witness ==
    /\ call.op = ChildOp
    /\ ret.actions_failed # <<>>
    /\ ret.actions_executed # <<>>
    /\ attempted[1] = 1
    /\ ret.actions_failed[1] = call.rule.actions[1].action
    /\ ret.handled

\* C12: the child phase attempts every action that is not set_mode once, in
\* order, whatever the connection did with the commands before it, and every
\* attempted action is in one and only one list of the report.
C12_EveryActionAttempted ==
    call.op = ChildOp =>
        /\ InOrder(attempted, OtherPositions(call.rule))
        /\ Len(ret.actions_executed) + Len(ret.actions_failed) = Len(attempted)
        /\ \A i \in OtherPositions(call.rule) :
              LET type == call.rule.actions[i].action IN
              Count(ret.actions_executed, type) + Count(ret.actions_failed, type)
                  = Cardinality({j \in OtherPositions(call.rule) :
                                    call.rule.actions[j].action = type})

\* the command of the first action raised, the second action was of unknown
\* type, and the third action was still attempted and succeeded
C12_Witness ==
    /\ call.op = ChildOp
    /\ i3.replies[1] = "raises"
    /\ "set_mode" \in caught
    /\ attempted = <<1, 2, 3>>
    /\ ret.actions_failed = <<"place", "frobnicate">>
    /\ ret.actions_executed = <<"size_ratio">>

\* the actions of a rule are one place below and one action of unknown type
PlaceAndUnknown(rule) ==
    /\ Len(rule.actions) = 2
    /\ rule.actions[1].action = "place"
    /\ rule.actions[1].direction = "below"
    /\ rule.actions[2].action \notin
           {"set_mode", "place", "size_ratio", "inherit_cwd", "preserve_column"}

\* the connection accepts every command
Accepting(conn) == \A k \in 1..Len(conn.replies) : conn.replies[k] = "ok"

\* C13 as stated: the child phase of a rule with one place and one unknown
\* action, on a connection that accepts, reports handled, executed ["place"]
\* and failed ["unknown action type"].
C13_FailedIsUnknownActionType ==
    (call.op = ChildOp /\ PlaceAndUnknown(call.rule) /\ Accepting(i3)) =>
        /\ ret.handled
        /\ ret.actions_executed = <<"place">>
        /\ ret.actions_failed = <<"unknown action type">>

\* C13: the child phase of a rule with one place and one unknown action, on
\* a connection that accepts, reports handled, executed ["place"], and failed
\* the name the unknown action was configured under.
C13_FailedNamesTheAction ==
    (call.op = ChildOp /\ PlaceAndUnknown(call.rule) /\ Accepting(i3)) =>
        /\ ret.handled
        /\ ret.actions_executed = <<"place">>
        /\ ret.actions_failed = <<call.rule.actions[2].action>>
        /\ commands = <<"set_mode v after">>

\* such a rule was executed and its report names frobnicate as failed
C13_Witness ==
    /\ call.op = ChildOp
    /\ PlaceAndUnknown(call.rule)
    /\ Accepting(i3)
    /\ ret.actions_failed = <<"frobnicate">>
    /\ ret.handled

\* C14: the parent phase attempts the set_mode actions of the rule and no
\* other, the child phase attempts the others and no set_mode, each once and
\* in order, so the two phases of one rule attempt every action once.
C14_PhasesPartition ==
    /\ call.op = PreOp =>
          /\ InOrder(attempted, ModePositions(call.rule))
          /\ \A k \in 1..Len(attempted) :
                call.rule.actions[attempted[k]].action = "set_mode"
    /\ call.op = ChildOp =>
          /\ InOrder(attempted, OtherPositions(call.rule))
          /\ \A k \in 1..Len(attempted) :
                call.rule.actions[attempted[k]].action # "set_mode"

\* the parent phase of a rule whose set_mode stands between two other
\* actions attempted the set_mode alone
C14_Witness ==
    /\ call.op = PreOp
    /\ Len(call.rule.actions) = 3
    /\ call.rule.actions[1].action = "place"
    /\ call.rule.actions[3].action = "size_ratio"
    /\ attempted = <<2>>
    /\ commands = <<"set_mode v after">>

\* the positions of a set, in increasing order
Sorted(positions) ==
    CHOOSE list \in [1..Cardinality(positions) -> positions] :
        InOrder(list, positions)

\* the axis a direction places on
AxisOf(direction) == IF direction \in {"left", "right"} THEN "h" ELSE "v"

\* the positions of the place actions of a rule
PlacePositions(rule) ==
    {i \in 1..Len(rule.actions) : rule.actions[i].action = "place"}

\* the axis of the last place action among the positions, v when there is none
LastPlaceAxis(rule, positions) ==
    IF positions = {} THEN "v"
    ELSE AxisOf(rule.actions[CHOOSE i \in positions :
                                 \A j \in positions : j <= i].direction)

\* the set_size commands of the last call, in the order they were issued
SizeCommands ==
    SelectSeq(commands, LAMBDA c : c \in {"set_size v 0.333", "set_size h 0.333"})

\* the positions of the size_ratio actions of a rule, in order
SizePositions(rule) ==
    Sorted({i \in 1..Len(rule.actions) : rule.actions[i].action = "size_ratio"})

\* C17 as stated: every size_ratio action resizes on the axis of the rule's
\* most recent place action, read either as the last place action before it
\* or as the last place action of the rule, and on v when there is none.
C17_MostRecentPlaceAxis ==
    call.op \in {ChildOp, "execute_rule"} =>
        LET rule == _parse_rule(rules_list[1]).value IN
        /\ Len(SizeCommands) = Len(SizePositions(rule))
        /\ \A k \in 1..Len(SizeCommands) :
              \/ SizeCommands[k] =
                    ("set_size " \o LastPlaceAxis(rule,
                         {i \in PlacePositions(rule) : i < SizePositions(rule)[k]}))
                    \o " 0.333"
              \/ SizeCommands[k] =
                    ("set_size " \o LastPlaceAxis(rule, PlacePositions(rule)))
                    \o " 0.333"

----------------------------------------------------------------------------
(* Properties of the order of the commands, checked under ExecSpec *)

\* the positions of the actions of the child phase that issue a command
IssuingPositions(rule) ==
    Sorted({i \in OtherPositions(rule) :
               rule.actions[i].action \in {"place", "size_ratio"}})

\* command is one that the action issues
IssuedBy(action, command) ==
    CASE action.action = "place" /\ action.direction = "below" ->
           command = "set_mode v after"
      [] action.action = "place" /\ action.direction = "right" ->
           command = "set_mode h after"
      [] action.action = "size_ratio" ->
           command \in {"set_size v 0.333", "set_size h 0.333"}
      [] OTHER -> FALSE

\* the actions of a rule are place below and then size_ratio 0.333
PlaceThenSize(rule) ==
    /\ Len(rule.actions) = 2
    /\ rule.actions[1].action = "place"
    /\ rule.actions[1].direction = "below"
    /\ rule.actions[2].action = "size_ratio"
    /\ rule.actions[2].value = 333

\* C18: the commands of the child phase are those of its actions, one per
\* action that issues one, in the order of the actions; for the actions
\* [place below, size_ratio 0.333] they are "set_mode v after" and then
\* "set_size v 0.333".
C18_CommandsInActionOrder ==
    call.op = ChildOp =>
        /\ Len(commands) = Len(IssuingPositions(call.rule))
        /\ \A k \in 1..Len(commands) :
              IssuedBy(call.rule.actions[IssuingPositions(call.rule)[k]], commands[k])
        /\ PlaceThenSize(call.rule)
              => commands = <<"set_mode v after", "set_size v 0.333">>

\* the rule [place below, size_ratio 0.333] was executed on a connection that
\* accepts, both actions succeeded and the two commands went out in order
C18_Witness ==
    /\ call.op = ChildOp
    /\ PlaceThenSize(call.rule)
    /\ Accepting(i3)
    /\ ret.actions_executed = <<"place", "size_ratio">>
    /\ commands = <<"set_mode v after", "set_size v 0.333">>

----------------------------------------------------------------------------
(* Properties of the layout manager, checked under LayoutSpec *)

\* C16: place_window issues "set_mode v after" for below, "set_mode v
\* before" for above, "set_mode h after" for right and "set_mode h before"
\* for left, that command alone, and returns what the window manager
\* answered; for any other direction it returns False and issues nothing.
C16_PlaceWindowMapping ==
    call.op = "place_window" =>
        CASE call.direction = "below" ->
               commands = <<"set_mode v after">> /\ ret = Bool(i3.replies[1] \in {"ok", "both"})
          [] call.direction = "above" ->
               commands = <<"set_mode v before">> /\ ret = Bool(i3.replies[1] \in {"ok", "both"})
          [] call.direction = "right" ->
               commands = <<"set_mode h after">> /\ ret = Bool(i3.replies[1] \in {"ok", "both"})
          [] call.direction = "left" ->
               commands = <<"set_mode h before">> /\ ret = Bool(i3.replies[1] \in {"ok", "both"})
          [] OTHER -> commands = <<>> /\ ret = Bool(FALSE)

\* a window was placed left on a connection that accepts
C16_Witness ==
    /\ call.op = "place_window"
    /\ call.direction = "left"
    /\ commands = <<"set_mode h before">>
    /\ ret = Bool(TRUE)


\* the calls that send one command when their arguments are valid
CommandOps == {"set_mode", "set_size", "place_window", "safe_command"}

\* the answer is a non-empty list of replies that all succeeded
Accepted(reply) == reply \in {"ok", "both"}

\* C21: set_mode, set_size, place_window and safe_command return a bool and
\* never raise; they return True only when the command went out and the
\* window manager answered with a non-empty list of successful replies, and
\* False when the call raised, answered an empty list or a list with a
\* failed reply.  In the child phase of [place below, size_ratio] an action
\* is marked failed exactly when its own command was not accepted.
C21_SuccessNeedsEveryReply ==
    /\ call.op \in CommandOps =>
          /\ ret \in {Bool(TRUE), Bool(FALSE)}
          /\ ret = Bool(TRUE) <=> (Len(commands) = 1 /\ Accepted(i3.replies[1]))
          /\ Len(commands) <= 1
          /\ (caught \cap CommandOps # {}) => ret = Bool(FALSE)
    /\ call.op = ChildOp =>
          /\ Len(commands) = 2
          /\ ret.actions_failed =
                SelectSeq(<<"place", "size_ratio">>,
                          LAMBDA a : ~Accepted(i3.replies[IF a = "place" THEN 1 ELSE 2]))
          /\ ret.actions_executed =
                SelectSeq(<<"place", "size_ratio">>,
                          LAMBDA a : Accepted(i3.replies[IF a = "place" THEN 1 ELSE 2]))

\* the place command was answered with one failed reply among two and the
\* resize was accepted: place alone is marked failed
C21_Witness ==
    /\ call.op = ChildOp
    /\ i3.replies = <<"partial", "ok">>
    /\ commands = <<"set_mode v after", "set_size v 0.333">>
    /\ ret.actions_failed = <<"place">>
    /\ ret.actions_executed = <<"size_ratio">>

\* the commands of the vocabulary of set_mode and of set_size
ModeVocabulary ==
    {"set_mode h", "set_mode v",
     "set_mode h after", "set_mode h before", "set_mode h end", "set_mode h beg",
     "set_mode v after", "set_mode v before", "set_mode v end", "set_mode v beg"}

SizeVocabulary ==
    {"set_size h 0.1", "set_size h 0.333", "set_size h 0.9",
     "set_size v 0.1", "set_size v 0.333", "set_size v 0.9"}

\* C33: set_mode sends a command exactly when the mode is h or v and the
\* modifier is absent (None or empty) or one of after, before, end, beg, and
\* set_size exactly when the dimension is h or v and the ratio is between 0.1
\* and 0.9, bounds included; the command is then one of the vocabulary, and on
\* any other input they send nothing and return False.
C33_CommandsInVocabulary ==
    /\ call.op = "set_mode" =>
          LET allowed == /\ call.mode \in {"h", "v"}
                         /\ call.modifier \in {None, "", "after", "before", "end", "beg"}
          IN /\ commands # <<>> <=> allowed
             /\ \A k \in 1..Len(commands) : commands[k] \in ModeVocabulary
             /\ ~allowed => ret = Bool(FALSE)
    /\ call.op = "set_size" =>
          LET allowed == /\ call.dimension \in {"h", "v"}
                         /\ call.ratio \in 100..900
          IN /\ commands # <<>> <=> allowed
             /\ \A k \in 1..Len(commands) : commands[k] \in SizeVocabulary
             /\ ~allowed => ret = Bool(FALSE)

\* set_size was asked for a ratio of 1.0 on a connection that accepts every
\* command: nothing was sent
C33_Witness ==
    /\ call.op = "set_size"
    /\ call.dimension = "v"
    /\ call.ratio = 1000
    /\ i3.replies[1] = "ok"
    /\ commands = <<>>
    /\ ret = Bool(FALSE)

----------------------------------------------------------------------------
(* Properties of the event handler, checked under EventSpec *)

EventOp == "smart_switch_splitting"

\* smart_switch_splitting has returned from the event in call
Returned == call.op = EventOp /\ phase = "idle"

\* the command a set_mode action issues
ModeCommand(action) ==
    IF "modifier" \in DOMAIN action
    THEN "set_mode " \o action.mode \o " " \o action.modifier
    ELSE "set_mode " \o action.mode

\* the commands of the set_mode actions of a rule, in the order of the rule
ModeCommands(rule) ==
    LET positions == Sorted(ModePositions(rule)) IN
    [k \in 1..Len(positions) |-> ModeCommand(rule.actions[positions[k]])]

\* C15: on a focus event that matches a rule, the commands of all the rule's
\* set_mode actions have been issued when the pending match is stored, and a
\* new-window event is resolved only once the store is done, never between
\* the commands and the store.
C15_ModeBeforeStore ==
    [][/\ (phase = "store" /\ pending_rules' # pending_rules) =>
              /\ commands = ModeCommands(call.rule)
              /\ commands' = commands
              /\ pending_rules'[call.workspace].rule = call.rule
       /\ (phase = "idle" /\ phase' = "store") =>
              /\ commands' = ModeCommands(call'.rule)
              /\ pending_rules' = pending_rules
       /\ (call'.op = EventOp /\ call'.event.change = "new" /\ call' # call) =>
              phase = "idle"]_vars

\* a focus event on the editor was answered pending: its set_mode command
\* went out and the match is stored for the workspace
C15_Witness ==
    /\ Returned
    /\ call.event.change = "focus"
    /\ ret # NoneRec
    /\ DictGet(ret, "action", None) = "pending"
    /\ commands = <<"set_mode v after">>
    /\ "1" \in DOMAIN pending_rules
    /\ pending_rules["1"].parent_id = "p1"

\* the result of handle_smart_rules is a handled one
HandledResult(result) == result # NoneRec /\ result.handled

\* C19: after every event switch_splitting has run exactly when the result of
\* the smart rules is not handled (or there are no rules to ask), and a
\* new-window event that finds no pending match for the workspace, or an
\* expired one, is not handled and falls through to switch_splitting.
C19_GeometryIffUnhandled ==
    Returned =>
        /\ geometry = 1 <=> ~HandledResult(ret)
        /\ geometry = 0 <=> HandledResult(ret)
        /\ (/\ "found" \in DOMAIN call
            /\ call.found = NoneRec \/ call.found.expires_at <= now) =>
               (ret = Unhandled /\ geometry = 1 /\ commands = <<>>)

\* a new kitty window arrived after the pending match of the editor had
\* expired: not handled, switch_splitting ran
C19_Witness ==
    /\ Returned
    /\ "found" \in DOMAIN call
    /\ call.found # NoneRec
    /\ call.found.expires_at <= now
    /\ call.event.container.app_id = "kitty"
    /\ ret = Unhandled
    /\ geometry = 1

\* the except clauses that answer an exception with {'handled': False}
HandlerLevel ==
    {"handle_smart_rules", "_handle_parent_focus_event",
     "_handle_new_window_event", "_handle_immediate_rule_matching"}

\* C20 as stated: whenever an exception was raised while an event was
\* handled, the result is handled = false.
C20_FailureMeansUnhandled ==
    (Returned /\ caught # {}) => (ret # NoneRec /\ ~ret.handled)

\* C20: smart_switch_splitting returns normally from every event, with a
\* result of handle_smart_rules whenever there are rules; the result is
\* handled = false when the exception reached the except clause of
\* handle_smart_rules or of one of its three handlers, or when the workspace
\* could not be determined.  An exception raised while one rule is matched or
\* one action is executed is absorbed there and leaves the result as it would
\* be with that rule skipped or that action failed.
C20_NoFailureEscapes ==
    /\ phase \in {"idle", "store"}
    /\ (Returned /\ SmartEnabled(config)) =>
          /\ ret # NoneRec
          /\ ret.handled \in BOOLEAN
          /\ (caught \cap HandlerLevel # {}) => ret = Unhandled
          /\ ("_get_current_workspace_name" \in caught) => ret = Unhandled
          /\ ("container" \notin DOMAIN call.event) => ret = Unhandled

\* store_pending_rule raised on a rule_timeout that is not a number, after
\* the set_mode command had gone out: not handled, nothing stored
C20_Witness ==
    /\ Returned
    /\ "_handle_parent_focus_event" \in caught
    /\ commands = <<"set_mode v after">>
    /\ ret = Unhandled
    /\ geometry = 1
    /\ pending_rules = <<>>

\* C22: the commands sent while an event is handled are at most as many as
\* the actions attempted for it, one for each action that issues one, whether
\* the window manager accepted them or not: the parent phase of the editor
\* rule sends its set_mode once, the child phase sends the place and the
\* resize once each, and neither sends a command of an earlier event again.
C22_NoCommandReissued ==
    /\ Len(commands) <= Len(attempted)
    /\ (phase = "store" \/ (Returned /\ call.event.change = "focus")) =>
          commands \in {<<>>, <<"set_mode v after">>}
    /\ (Returned /\ "found" \in DOMAIN call) =>
          commands \in {<<>>, <<"set_mode v after", "set_size v 0.333">>}
    /\ (Returned /\ "found" \in DOMAIN call /\ commands # <<>>) =>
          attempted = <<2, 3>>

\* a child was resolved after a focus event; its place command raised and
\* was sent once, followed by the resize alone
C22_Witness ==
    /\ Returned
    /\ "found" \in DOMAIN call
    /\ call.found # NoneRec
    /\ i3.replies = <<"raises", "ok">>
    /\ commands = <<"set_mode v after", "set_size v 0.333">>
    /\ ret.handled
    /\ ret.actions_failed = <<"place">>

----------------------------------------------------------------------------
(* Properties of the state manager under threads, checked under ThreadSpec *)

FocusThread == "_handle_parent_focus_event"
NewThreadOp == "_handle_new_window_event"
NeovimThread == "execute_neovim_terminal_placement"
CleanupThread == "cleanup_expired_state"

\* thread t takes a step
Steps(t) == pcs'[t].at # pcs[t].at

\* C23: whatever the interleaving of the handlers and of the cleanup, a
\* thread that calls i3.command or i3.get_tree does not hold the lock of
\* the state manager while it does, and it has not left the lock held when
\* it is done.
C23_NoWmCallUnderLock ==
    [][\A t \in Threads :
          /\ (Steps(t) /\ At(t) \in {"command", "get_tree"}) => lock # t
          /\ (Steps(t) /\ At(t) \in {"store", "check", "delete", "relate", "purge"})
                => lock = t
          /\ At(t) = "done" => lock # t]_vars

\* the focus handler sent its command while the cleanup held the lock
C23_Witness ==
    /\ lock = CleanupThread
    /\ call = [op |-> FocusThread, step |-> "command"]
    /\ At(FocusThread) = "acquire"

\* the entry of the workspace, NoneRec when it has none
ThreadEntry(d) == DictGet(d, ThreadWorkspace, NoneRec)

\* C24: the test and the delete of get_pending_rule are one step for every
\* store_pending_rule that runs beside it: the entry is at the delete what
\* it was at the test, only an entry found expired is deleted, and once the
\* store of the focus handler and the get are both done the entry of that
\* store is returned by a get until its own expiry.
C24_CheckAndDeleteAtomic ==
    [][/\ (Steps(NewThreadOp) /\ At(NewThreadOp) = "delete") =>
             /\ ThreadEntry(pending_rules) = pcs[NewThreadOp].rule_info
             /\ pending_rules' # pending_rules =>
                   ThreadEntry(pending_rules).expires_at <= now
       /\ (/\ pcs'[FocusThread].at > Len(Program(FocusThread))
           /\ pcs'[NewThreadOp].at > 4
           /\ pcs'[NeovimThread].at <= 5
           /\ now' < pcs'[FocusThread].stored_at + MaxTtl) =>
             /\ get_pending_rule(pending_rules', ThreadWorkspace, now') # NoneRec
             /\ ThreadEntry(pending_rules').expires_at =
                   pcs'[FocusThread].stored_at + MaxTtl]_vars

\* the get found the entry of the earlier event expired, the focus handler
\* stored beside it, and its entry is there when both are done
C24_Witness ==
    /\ At(FocusThread) = "done"
    /\ At(NewThreadOp) = "done"
    /\ pcs[NewThreadOp].rule_info = ThreadEntry(EarlierPending)
    /\ ~pcs[NewThreadOp].live
    /\ pcs[NeovimThread].at = 1
    /\ ThreadEntry(pending_rules) # NoneRec
    /\ ThreadEntry(pending_rules).expires_at = pcs[FocusThread].stored_at + MaxTtl
    /\ ThreadEntry(pending_rules).expires_at > now

----------------------------------------------------------------------------
(* Properties of the cleanup, checked under SweepSpec *)

GetOps ==
    {"get_pending_rule", "check_child_against_pending_rules", "get_relationship",
     "get_parent_cwd", "get_preserved_dimensions"}

\* C25: with calls of cleanup_expired_state put anywhere in a history of
\* stores and gets, every get_pending_rule, get_parent_cwd,
\* get_preserved_dimensions and get_relationship (and every child check)
\* returns what it returns in the same history without them.
C25_CleanupChangesNoResult ==
    call.op \in GetOps => ret = shadow.ret

\* a get returned the live cwd after a cleanup had purged an expired pending
\* rule that the uncleaned stores still hold
C25_Witness ==
    /\ call.op = "get_parent_cwd"
    /\ ret = "/home/u"
    /\ pending_rules = <<>>
    /\ StoreWorkspace \in DOMAIN shadow.stores.pending_rules

----------------------------------------------------------------------------
(* Properties of the matchers, checked under MatchSpec *)

\* the title matches the pattern as a glob, letter case apart.  The titles
\* and patterns of MatcherWindows and PatternLists, case by case.
GlobMatches(title, pattern) ==
    CASE pattern = "*VIM*" -> title = "Nvim"
      [] pattern = "?h" -> title = "sh"
      [] pattern = "n*" -> title = "Nvim"
      [] OTHER -> FALSE

\* the window has a title: the attribute is there and is not empty
HasTitle(container) == container.name # None /\ container.name # ""

C28_EmptyChildAcceptsAll ==
    /\ call.op = "match_child" =>
          (ret = Bool(TRUE) <=>
              \/ call.rule.child.app_id = <<>>
              \/ \E i \in 1..Len(call.rule.child.app_id) :
                    call.rule.child.app_id[i] = call.container.app_id)
    /\ (/\ call.op = "_matches_parent_criteria"
        /\ call.rule.parent.app_id = <<>>
        /\ call.rule.parent.window_class = <<>>
        /\ call.rule.parent.title_pattern = <<>>) => ret = Bool(FALSE)

\* a window with no app id, class or title was accepted as the child of a
\* rule with empty child criteria
C28_Witness ==
    /\ call.op = "match_child"
    /\ call.rule.child.app_id = <<>>
    /\ call.container.app_id = None
    /\ call.container.window_class = None
    /\ call.container.name = None
    /\ ret = Bool(TRUE)

----------------------------------------------------------------------------
(* Properties of the configuration, checked under ConfigSpec *)

\* C29: after load_config and load_rules, no two rules of the rule engine
\* have the same name.
C29_RuleNamesUnique ==
    call.op = "load_rules" =>
        \A i, j \in 1..Len(rules) : i # j => rules[i].name # rules[j].name

\* C30: validate_size_ratio accepts a number exactly when it is at least
\* 0.1 and at most 0.9: 0.1 and 0.9 are accepted, 0.05 and 1.0 are not, and
\* a value that is not a number is not.
C30_RatioBoundsInclusive ==
    call.op = "validate_size_ratio" =>
        /\ ret.valid <=>
              \/ call.value.type = "float" /\ call.value.val \in 100..900
              \/ call.value.type = "int" /\ call.value.val * 1000 \in 100..900
        /\ call.value \in {Float(100), Float(900)} => ret.valid
        /\ call.value \in {Float(50), Float(1000)} => ~ret.valid
        /\ call.value.type \notin {"int", "float", "bool"} =>
              ret = [valid |-> FALSE,
                     errors |-> <<Error("size_ratio value must be a number",
                                        None, -1)>>]
        /\ ret.valid <=> ret.errors = <<>>

\* the upper bound itself was accepted
C30_Witness ==
    /\ call.op = "validate_size_ratio"
    /\ call.value = Float(900)
    /\ ret = [valid |-> TRUE, errors |-> <<>>]

----------------------------------------------------------------------------
(* Properties of the handlers, checked under HandlerSpec *)

\* some rule of the configuration is about the window: the kitty rules
\* name the app id kitty, the browser rule the class Firefox
FocusMatches(container, cfg) ==
    \E i \in 1..Len(cfg.rules) :
        \/ cfg.rules[i] \in {TerminalRule, ResizeRule} /\ container.app_id = "kitty"
        \/ cfg.rules[i] = BrowserRule /\ container.window_class = "Firefox"

\* a set_mode command of the parent phase of the event was accepted
ModeSucceeded == \E k \in 1..Len(commands) : Accepted(Reply(i3, k))

\* C31 as stated: the report of a focus event is handled only if a set_mode
\* action of the matched rule executed successfully.
C31_HandledNeedsSetMode ==
    (Returned /\ call.event.change = "focus" /\ HandledResult(ret)) => ModeSucceeded

\* C31: the report of a focus event is handled exactly when the window
\* matches the parent criteria of a rule and that rule was stored as the
\* pending match of the workspace, whether or not the rule has set_mode
\* actions and whether or not they succeeded; it then names the rule with
\* action pending.  Otherwise it is unhandled and the event falls through to
\* geometry tiling.
C31_HandledIffStored ==
    (Returned /\ call.event.change = "focus") =>
        /\ HandledResult(ret) <=>
              /\ i3.focused # None
              /\ FocusMatches(call.event.container, config)
              /\ "_handle_parent_focus_event" \notin caught
        /\ HandledResult(ret) =>
              /\ ret.action = "pending"
              /\ i3.focused \in DOMAIN pending_rules
              /\ pending_rules[i3.focused].rule.name = ret.rule_name
              /\ pending_rules[i3.focused].parent_id = call.event.container.id
        /\ geometry = 1 <=> ~HandledResult(ret)

\* a focus event on the browser whose set_mode raised, and one on the editor
\* whose rule has no set_mode, were both answered pending
C31_Witness ==
    /\ Returned
    /\ call.event.change = "focus"
    /\ ret # NoneRec
    /\ ret.handled
    /\ \/ /\ call.event.container.window_class = "Firefox"
          /\ commands = <<"set_mode v after">>
          /\ i3.replies[1] = "raises"
       \/ /\ call.event.container.app_id = "kitty"
          /\ commands = <<>>
    /\ geometry = 0

----------------------------------------------------------------------------
(* Properties of the placement flow, checked under PlacementSpec.          *)

\* the answer the connection gave to the mark command of the last flow
MarkReply == Reply(i3, 2)

MarkFailed ==
    /\ call.op = PlacementOp
    /\ Truthy(call.parent)
    /\ Len(commands) >= 2
    /\ ~Success(MarkReply)

\* C34: a mark command that fails, rejected by the window manager or raising,
\* does not abort the flow: it returns true and the rule is pending for the
\* current workspace
C34_MarkFailureContinues ==
    MarkFailed =>
        /\ ret = Bool(TRUE)
        /\ Truthy(_get_current_workspace(i3)) =>
              /\ i3.focused \in DOMAIN pending_rules
              /\ pending_rules[i3.focused].rule = NeovimRule(333)
              /\ pending_rules[i3.focused].parent_id = call.container.id

----------------------------------------------------------------------------
(* Properties of the child phase, checked under ChildSpec.                 *)

StoreActions == {"inherit_cwd", "preserve_column"}

RECURSIVE CountIn(_, _)
\* how many elements of seq are in the set
CountIn(seq, set) ==
    IF seq = <<>> THEN 0
    ELSE (IF Head(seq) \in set THEN 1 ELSE 0) + CountIn(Tail(seq), set)

RECURSIVE ActionsWhere(_, _, _)
\* how many actions of the list have one of the types and the enabled given
ActionsWhere(actions, types, enabled) ==
    IF actions = <<>> THEN 0
    ELSE (IF /\ Head(actions).action \in types
             /\ \/ Head(actions).action \notin StoreActions
                \/ Head(actions).enabled \in enabled
          THEN 1 ELSE 0) + ActionsWhere(Tail(actions), types, enabled)

ChildReturned == call.op = "_execute_child_actions"

\* C35: in the child phase a disabled inherit_cwd or preserve_column action
\* is reported executed, an enabled one is reported executed when the current
\* workspace is known, whatever the stores hold, and neither sends a command
C35_StoreActionsExecuted ==
    ChildReturned =>
        /\ \A type \in StoreActions :
              /\ CountIn(ret.actions_executed, {type}) >=
                    ActionsWhere(call.rule.actions, {type}, {FALSE})
              /\ Truthy(_get_current_workspace(i3)) =>
                    /\ CountIn(ret.actions_executed, {type}) =
                          ActionsWhere(call.rule.actions, {type}, BOOLEAN)
                    /\ CountIn(ret.actions_failed, {type}) = 0
        /\ Len(commands) = ActionsWhere(call.rule.actions, {"place"}, BOOLEAN)
        /\ \A k \in 1..Len(commands) : commands[k] = "set_mode v after"

\* an enabled inherit_cwd was reported executed on a known workspace, at the
\* last instant, with no directory left in the store
C35_Witness ==
    /\ ChildReturned
    /\ i3.focused = "1"
    /\ ActionsWhere(call.rule.actions, {"inherit_cwd"}, {TRUE}) > 0
    /\ "1" \notin DOMAIN parent_cwds
    /\ now = MaxTime
    /\ CountIn(ret.actions_executed, {"inherit_cwd"}) > 0

----------------------------------------------------------------------------
(* Properties of the pending match of a focus event, under HandlerSpec.    *)

\* the configuration of the handler as validate_config reads it
AsLoaded(cfg) ==
    IF "settings" \in DOMAIN cfg
    THEN [rules |-> List(cfg.rules), settings |-> cfg.settings]
    ELSE [rules |-> List(cfg.rules)]

\* settings.rule_timeout of a configuration, 15 when it has none
ConfiguredTimeout(cfg) ==
    IF "settings" \in DOMAIN cfg /\ HasKey(cfg.settings, "rule_timeout")
    THEN ObjGet(cfg.settings, "rule_timeout", NoneRec).val
    ELSE 15

FocusStored ==
    /\ Returned
    /\ call.event.change = "focus"
    /\ HandledResult(ret)

\* C36: the pending match of a focus event expires settings.rule_timeout
\* seconds after the event under a configuration that validates, and 15
\* seconds after it when the configuration sets no timeout
C36_PendingLivesForRuleTimeout ==
    (/\ FocusStored
     /\ validate_config(AsLoaded(config)).valid
     /\ "rule_timeout" \notin DOMAIN config) =>
        pending_rules[i3.focused].expires_at = now + ConfiguredTimeout(config)

\* the step belongs to a focus event on a window that no rule is about
UnrelatedFocusStep ==
    /\ call'.op = EventOp
    /\ call'.event.change = "focus"
    /\ ~FocusMatches(call'.event.container, config)

\* C37: a focus event on a window that matches no rule's parent criteria
\* leaves the state store unchanged; a pending match of the workspace keeps
\* its rule, its parent id and its expiry time
C37_UnrelatedFocusKeepsPending ==
    [][UnrelatedFocusStep =>
          /\ UNCHANGED StoreVars
          /\ \A ws \in DOMAIN pending_rules :
                /\ ws \in DOMAIN pending_rules'
                /\ pending_rules'[ws].rule = pending_rules[ws].rule
                /\ pending_rules'[ws].parent_id = pending_rules[ws].parent_id
                /\ pending_rules'[ws].expires_at = pending_rules[ws].expires_at]_vars

\* the shell of another application took the focus while a match of the
\* editor was pending, and the match is still there
C37_Witness ==
    /\ Returned
    /\ call.event.change = "focus"
    /\ call.event.container.app_id = "foot"
    /\ ~HandledResult(ret)
    /\ i3.focused = "1"
    /\ "1" \in DOMAIN pending_rules
    /\ pending_rules["1"].parent_id = "p1"
    /\ pending_rules["1"].expires_at > now

----------------------------------------------------------------------------
(* Properties of the pending match under a replaced rule list, checked     *)
(* under ReloadSpec.                                                       *)

\* the arguments of the last store on the workspace, NoneRec when none
LastStore(workspace) == DictGet(shadow, workspace, NoneRec)

\* C38: the rule check_child_against_pending_rules returns for a workspace
\* is the rule given to the last store_pending_rule on that workspace, which
\* has not expired; the rules the engine holds at the time of the check, and
\* the stores on other workspaces, have no part in it
C38_ReturnsLastStoredRule ==
    call.op = "check_child_against_pending_rules" =>
        ret = IF /\ LastStore(call.workspace) # NoneRec
                 /\ LastStore(call.workspace).expires_at > now
                 /\ match_child(call.child_container, LastStore(call.workspace).rule)
              THEN LastStore(call.workspace).rule
              ELSE NoneRec

\* a child got the rule of a parent match that a later load_rules removed
\* from the engine, while the other workspace held another rule
C38_Witness ==
    /\ call.op = "check_child_against_pending_rules"
    /\ ret # NoneRec
    /\ \A i \in 1..Len(rules) : rules[i] # ret
    /\ \E i \in 1..Len(rules) : match_child(call.child_container, rules[i])
    /\ \E ws \in Workspaces \ {call.workspace} :
          /\ ws \in DOMAIN pending_rules
          /\ pending_rules[ws].expires_at > now
          /\ pending_rules[ws].rule # ret
          /\ match_child(call.child_container, pending_rules[ws].rule)

----------------------------------------------------------------------------
(* Properties of immediate rule matching, checked under HandlerSpec.       *)

\* the rule of the configuration is about the window
RuleIsAbout(rule_dict, container) ==
    \/ rule_dict \in {TerminalRule, ResizeRule} /\ container.app_id = "kitty"
    \/ rule_dict = BrowserRule /\ container.window_class = "Firefox"

RECURSIVE RulesAbout(_, _)
\* the rules of the list that are about the window, in the order of the list
RulesAbout(rule_dicts, container) ==
    IF rule_dicts = <<>> THEN <<>>
    ELSE (IF RuleIsAbout(Head(rule_dicts), container)
          THEN <<Head(rule_dicts)>> ELSE <<>>)
         \o RulesAbout(Tail(rule_dicts), container)

\* the command of the one action each of these rules has
RuleCommand(rule_dict) ==
    IF rule_dict = ResizeRule THEN "set_size v 0.333" ELSE "set_mode v after"

\* the first command of the event that the window manager accepted, 0 when
\* it accepted none of the first n
FirstAccepted(n) ==
    IF \E k \in 1..n : Success(Reply(i3, k))
    THEN CHOOSE k \in 1..n :
            Success(Reply(i3, k)) /\ \A j \in 1..(k - 1) : ~Success(Reply(i3, j))
    ELSE 0

ImmediateReturned ==
    /\ Returned
    /\ call.event.change = "title"
    /\ i3.focused # None

\* C39: for an event that is neither focus nor new the rules about the
\* window are executed in the order of the configuration, set_mode actions
\* included, up to the first one that has an action succeed; a rule whose
\* actions all fail does not end the walk, and the result is unhandled
\* exactly when no such rule had an action succeed
C39_ImmediateWalk ==
    ImmediateReturned =>
        LET about == RulesAbout(config.rules, call.event.container)
            stop == FirstAccepted(Len(about))
            walked == IF stop = 0 THEN Len(about) ELSE stop
        IN /\ commands = [k \in 1..walked |-> RuleCommand(about[k])]
           /\ HandledResult(ret) <=> stop # 0
           /\ stop # 0 => /\ ret.rule_name = StrOf(ObjGet(about[stop], "name", None))
                          /\ Len(ret.actions_executed) = 1
           /\ geometry = 1 <=> stop = 0

\* the placement of the first rule was rejected and the second rule, which
\* resizes, was executed and handled the event
C39_Witness ==
    /\ ImmediateReturned
    /\ config.rules = <<TerminalRule, ResizeRule>>
    /\ commands = <<"set_mode v after", "set_size v 0.333">>
    /\ i3.replies = <<"rejected", "ok">>
    /\ HandledResult(ret)
    /\ ret.rule_name = "resize"
    /\ geometry = 0

----------------------------------------------------------------------------
(* Properties of the sweep next to the stores, checked under StoreSpec.    *)

\* the step is the locked block of cleanup_expired_state
SweepStep == sweep.pc = "read" /\ sweep'.pc = "idle"

\* the sweep leaves in d the entries that expire after t as they are
KeptAfter(d, swept, t) ==
    \A ws \in DOMAIN d :
        d[ws].expires_at > t => ws \in DOMAIN swept /\ swept[ws] = d[ws]

\* C40: a sweep deletes no live entry: an entry that expires after the time
\* the sweep read before it took the lock, as every entry stored after that
\* time with a positive time-to-live does, and every entry a get would
\* return at the instant of the sweep, is left as it is, and so are all the
\* relationships
C40_SweepKeepsLive ==
    [][SweepStep =>
          /\ sweep.current_time <= now
          /\ \A t \in {sweep.current_time, now} :
                /\ KeptAfter(pending_rules, pending_rules', t)
                /\ KeptAfter(parent_cwds, parent_cwds', t)
                /\ KeptAfter(preserved_dimensions, preserved_dimensions', t)
          /\ GetEntry(pending_rules', StoreWorkspace, now) =
                GetEntry(pending_rules, StoreWorkspace, now)
          /\ GetEntry(parent_cwds', StoreWorkspace, now) =
                GetEntry(parent_cwds, StoreWorkspace, now)
          /\ GetEntry(preserved_dimensions', StoreWorkspace, now) =
                GetEntry(preserved_dimensions, StoreWorkspace, now)
          /\ relationships' = relationships]_vars

\* a sweep that had read the clock earlier ended with a live pending rule in
\* the store that was stored after that reading, and with no directory
C40_Witness ==
    /\ call.op = "cleanup_expired_state"
    /\ call.current_time < now
    /\ StoreWorkspace \in DOMAIN pending_rules
    /\ pending_rules[StoreWorkspace].expires_at > now
    /\ pending_rules[StoreWorkspace].expires_at - MaxTtl > call.current_time
    /\ StoreWorkspace \notin DOMAIN parent_cwds

====
